---- MODULE Spec2Model ----
(***************************************************************************)
(* A model of lazy-music-sheet: the tempo-map time conversion of the MIDI  *)
(* import (midiConverter.ts), the AudioPlayer and its Tone.Transport, the  *)
(* usePlayback hook, the cursor / auto-scroll loop of SheetView, and the   *)
(* note drag of NoteLine with SheetView's and App's note update.           *)
(*                                                                         *)
(* Units.  Times of the tempo map and of the transport are whole seconds.  *)
(* Quarter-note values are carried multiplied by QScale (600), so that     *)
(* seconds * (bpm / 60) is the integer seconds * bpm * 10, a pixel at 50   *)
(* px per quarter is 12 and an eighth of a quarter note (the ties of the   *)
(* 0.25 grid) is 75; the arithmetic is exact (JavaScript's rounding of     *)
(* doubles is not modelled).  Pixels are integers.                         *)
(*                                                                         *)
(* Steps.  JavaScript runs one callback at a time, so a step is one        *)
(* handler, timeout, frame or promise continuation together with the       *)
(* render it causes and that render's effects (cleanups first, then the    *)
(* effects in the order of their declaration, SheetView's before App's).   *)
(* The refs that mirror a prop (isPlayingRef, sheetRef, prevIsPlayingRef,  *)
(* prevMutedTracksRef) are read off the state they mirror.                 *)
(*                                                                         *)
(* Taken as given: Tone.start() and the other awaited promises of play()   *)
(* resolve (play() does not throw); Transport.start('+0.1') counts as      *)
(* started at once; solo and track visibility are left at their initial   *)
(* values everywhere but in TrackSpec, and so is the zoom everywhere but   *)
(* in LayoutSpec.                                                          *)
(*                                                                         *)
(* Specifications.  Spec: the app without the user's own scrolling.        *)
(* ScrollSpec: a loaded sheet, the playback controls and the user's        *)
(* scrolling with its cooldown; FairSpec adds the fairness of timers,      *)
(* frames and event dispatch.  TimeSpec: the tempo-map conversion and the  *)
(* loop's tick over every small tempo map.  DragSpec: a loaded sheet and   *)
(* the pointer on its NoteLines (down, move, up, an up the window does not *)
(* get, unmount); the view is not scrolled and nothing plays meanwhile,    *)
(* and a pointer event with its render is one step.  The selection stays   *)
(* null in the app: a NoteLine that is given onUpdate never calls          *)
(* onSelect.  QuantSpec: handleMouseMove's arithmetic over a grid of       *)
(* starts, durations and pointer deltas.  ImportSpec: midiToSheet's note   *)
(* loop (range filter, duplicate key, minimum duration, sort) over every   *)
(* small file, with the converted start times as its input.                *)
(* FilterSpec: the same loop over files that also hold notes it rejects    *)
(* (a key outside the piano, a negative start, a duration of 0 or less).   *)
(* EditSpec: a file is imported, loaded and edited with the pointer.       *)
(* LayoutSpec: the layout of a loaded sheet that is not playing, under     *)
(* zoom, scroll and resize of the container, for sheets of several         *)
(* lengths and time signatures; the handlers of one event, the render and  *)
(* the effects it causes are one step.  LoopSpec: a sheet of ten bars is   *)
(* playing; the transport runs on (past the last note too), the loop       *)
(* ticks and the user scrolls.  TrackSpec: a loaded sheet of three tracks, *)
(* not playing; the sidebar's eye, mute and solo buttons, and the delete   *)
(* and resize of a note with the sheet effect that follows.                *)
(***************************************************************************)
EXTENDS Integers, Sequences, FiniteSets, TLC

\* ------------------------------------------------------------------ bounds
\* Longest list of tempo events of an imported file.
MaxBreakpoints == 2
\* Latest time (s) of a tempo event.
MaxMapTime == 2
\* Largest number of seconds converted.
MaxSeconds == 3

\* Longest run of the transport that is followed (s).
MaxElapsed == 2
\* Most continuations waiting at once: play() calls at their await and
\* 100 ms restart timeouts.
MaxPending == 1
\* Most pending 200 ms time-display callbacks followed.
MaxTimers == 2
\* Most pending animation-frame callbacks followed.
MaxFrames == 2
\* The user-scroll cooldown, in steps of the model's clock.
CooldownTicks == 1
\* The seconds between two observations of the transport's clock.
ClockStep == 2

\* --------------------------------------------------------------- constants
\* Quarter notes are stored multiplied by 600: the 60 of bpm / 60, times 10
\* so that one pixel and one eighth of a quarter note are whole numbers.
QScale == 60 * 10
\* What one second at 1 bpm adds to a stored quarter-note value.
PerBpm == QScale \div 60
\* The tempo of a file without tempo events.
DefaultTempo == 120

\* App's pixelsPerQuarter state (its default; zoom is not changed here).
PixelsPerQuarter == 50
\* clientHeight of the scroll container (px), as laid out by the browser.
ContainerHeight == 78 * 10
\* Quarter notes of one bar, as SheetView lays bars out.
BarQuarters == 4
\* Bars rendered beyond the viewport on either side.
BarPadding == 2

\* The tempos (bpm) the model's files use.
Bpms == {60, 120}

VARIABLES
  \* midiToSheet
  tempoMap,      \* the sorted tempo map: a sequence of [time, tempo]
  sheetTempo,    \* sheet.tempo: the bpm of the file's first tempo event
  convSeconds,   \* the argument of the conversion under test
  convResult     \* its result (QScale * quarter notes), or -1 before the call

VARIABLES
  \* useSheet / App
  sheetLoaded,        \* sheet # null
  notes,              \* sheet.notes: a sequence of [pitch, startTime, duration, trackId]
  mutedTracks,        \* App's mutedTracks
  restartTimers,      \* pending setTimeout(play, 100), oldest first: the events each closure's sheet and muted set give
  mounted,            \* the App (and with it SheetView) is mounted
  \* usePlayback
  isPlaying,          \* the hook's isPlaying state
  currentTime,        \* the hook's currentTime state (QScale * quarter notes)
  playCalls,          \* AudioPlayer.play calls waiting at their await, oldest first: the events of each
  \* AudioPlayer and Tone.Transport
  playerIsPlaying,    \* AudioPlayer.isPlaying
  playerCurrentTime,  \* AudioPlayer.currentTime (QScale * quarter notes)
  scheduledNotes,     \* AudioPlayer.scheduledNotes: the Parts, each its events
  timeTimers,         \* pending updateTimeDisplay timeouts
  transportState,     \* Tone.Transport.state
  transportSeconds,   \* Tone.Transport.seconds
  \* SheetView
  scrollTop,          \* the scroll container's scrollTop (px)
  indicatorPos,       \* translateY of the playback indicator (px); -1: not shown
  userScrollingRef,
  scrollTimeout,      \* time left on the pending cooldown timeout; -1: none pending
  isAutoScrollingRef,
  framePending,       \* pending requestAnimationFrame callbacks
  animationFrameRef,  \* "null", "live" (names a pending callback) or "stale"
  scrollEvt,          \* causes of the scroll event waiting to be dispatched
  visibleBarRange,    \* [start, end]
  \* history
  lastTick,           \* what the last step's loop tick did: "none", "work", "scroll"
  userCooldown,       \* time left of the cooldown since the user's last scroll event
  lastControl         \* the hook function called last: "none", "play", "resume", "pause", "stop"

VARIABLES
  \* App's selection and the NoteLine views
  selectedNote,  \* App's selectedNote: <<>> (null) or <<note>>
  drags,         \* the NoteLines with isDragging true, in the order their
                 \* window listeners were added: [view, dragType, y, note] of
                 \* dragTypeRef and dragStartRef, with the history fields
                 \* storeAtDown, moved and last
  pointerHeld,   \* the mouse button is down
  \* history
  lastPointer,   \* the last pointer event: "none", "down", "move", "up", "lost", "unmount"
  gestures,      \* how many times the button has gone down on a note
  tornDown       \* the drags whose NoteLine the last step unmounted

VARIABLES
  \* handleMouseMove's arithmetic on its own
  quantArgs,     \* [dragType, note, deltaTime]
  quantNote,     \* the note it passes to onUpdate: <<>> before the call
  \* midiToSheet's note loop on its own
  rawEvents,     \* the notes of one track of the file: [trackId, pitch, time],
                 \* time in 1/ImportScale quarter notes
  imported,      \* the notes stored for them: <<>> before the import
  importDone,    \* midiToSheet has returned
  \* the sheet's layout on its own, with the zoom and the container's height
  layout         \* [timeSignature, totalDuration, pixelsPerQuarter,
                 \*  clientHeight, scrollTop, visibleBarRange], with what
                 \*  the range was computed for (rangeFor), the last
                 \*  operation (lastOp), the zoom before it (zoomedFrom)
                 \*  and whether it changed zoom, offset or height

VARIABLES
  \* App's track state on its own, with the sheet's notes and mutedTracks
  trackView      \* [visibleTracks, soloTrack (-1: null), prevStateRef (<<>>:
                 \*  null)], with the note the last context menu was opened
                 \*  on (target: <<>> before the first) and the last
                 \*  operation (lastOp)

timeVars == <<tempoMap, sheetTempo, convSeconds, convResult>>

dragVars == <<selectedNote, drags, pointerHeld, lastPointer, gestures, tornDown>>

pureVars == <<quantArgs, quantNote, rawEvents, imported, importDone, layout,
              trackView>>

playVars == <<sheetLoaded, notes, mutedTracks, restartTimers, mounted, isPlaying,
              currentTime, playCalls, playerIsPlaying, playerCurrentTime,
              scheduledNotes, timeTimers, transportState, transportSeconds,
              scrollTop, indicatorPos, userScrollingRef, scrollTimeout,
              isAutoScrollingRef, framePending, animationFrameRef, scrollEvt,
              visibleBarRange, lastTick, userCooldown, lastControl>>

vars == <<timeVars, playVars, dragVars, pureVars>>

Min(a, b) == IF a < b THEN a ELSE b
Max(a, b) == IF a > b THEN a ELSE b
Abs(a) == IF a < 0 THEN -a ELSE a

\* ------------------------------------------------------------ midiToSheet
\* Insert e into the sorted sequence s after every element whose time is not
\* later: Array.prototype.sort is stable.
RECURSIVE InsertByTime(_, _)
InsertByTime(s, e) ==
  IF s = <<>> THEN <<e>>
  ELSE IF e.time < s[1].time THEN <<e>> \o s
  ELSE <<s[1]>> \o InsertByTime(Tail(s), e)

RECURSIVE SortByTime(_)
SortByTime(s) ==
  IF s = <<>> THEN <<>>
  ELSE InsertByTime(SortByTime(SubSeq(s, 1, Len(s) - 1)), s[Len(s)])

\* The tempo map of a file whose header holds the tempo events `tempos`.
BuildTempoMap(tempos) ==
  IF Len(tempos) = 0
    THEN <<[time |-> 0, tempo |-> DefaultTempo]>>
    ELSE SortByTime(tempos)

\* sheet.tempo of that file.
HeaderTempo(tempos) ==
  IF Len(tempos) > 0 THEN tempos[1].tempo ELSE DefaultTempo

\* The for loop of secondsToQuarterNotes from index i on, with the values of
\* its locals quarterNotes and currentTime (elapsedTo).
RECURSIVE TempoWalk(_, _, _, _, _)
TempoWalk(map, seconds, i, quarterNotes, elapsedTo) ==
  IF i > Len(map) THEN quarterNotes
  ELSE
    LET nextTime == IF i < Len(map) THEN map[i + 1].time ELSE seconds
        segmentEnd == Min(nextTime, seconds)
        advance == elapsedTo < segmentEnd
        q2 == IF advance
                THEN quarterNotes + (segmentEnd - elapsedTo) * map[i].tempo * PerBpm
                ELSE quarterNotes
        c2 == IF advance THEN segmentEnd ELSE elapsedTo
    IN IF segmentEnd >= seconds THEN q2
       ELSE TempoWalk(map, seconds, i + 1, q2, c2)

\* A conversion of the whole time at the tempo in force at `seconds`.
secondsToQuarterNotesAtLastTempo(seconds, map) ==
  LET passed == {i \in 1..Len(map) : map[i].time < seconds}
      last == IF passed = {} THEN 1
              ELSE CHOOSE i \in passed : \A j \in passed : j <= i
  IN seconds * map[last].tempo * PerBpm

\* A plausible slip: the last segment runs at the previous breakpoint's tempo.
secondsToQuarterNotesStaleTempo(seconds, map) ==
  IF Len(map) = 1 THEN seconds * map[1].tempo * PerBpm
  ELSE TempoWalk([i \in 1..Len(map) |-> map[Max(1, i - 1)]], seconds, 1, 0, 0)

\* secondsToQuarterNotes(seconds), times QScale.
secondsToQuarterNotes(seconds, map) ==
  IF Len(map) = 1 THEN seconds * map[1].tempo * PerBpm
  ELSE TempoWalk(map, seconds, 1, 0, 0)

\* ============================================================ the program
\* The whole state as one record, so that each handler is a function from
\* state to state; Cur is the present state and Stores(s) makes s the next.
Cur ==
  [tempoMap |-> tempoMap, sheetTempo |-> sheetTempo,
   sheetLoaded |-> sheetLoaded, notes |-> notes, mutedTracks |-> mutedTracks,
   restartTimers |-> restartTimers, mounted |-> mounted,
   isPlaying |-> isPlaying, currentTime |-> currentTime,
   playCalls |-> playCalls, playerIsPlaying |-> playerIsPlaying,
   playerCurrentTime |-> playerCurrentTime, scheduledNotes |-> scheduledNotes,
   timeTimers |-> timeTimers, transportState |-> transportState,
   transportSeconds |-> transportSeconds, scrollTop |-> scrollTop,
   indicatorPos |-> indicatorPos, userScrollingRef |-> userScrollingRef,
   scrollTimeout |-> scrollTimeout, isAutoScrollingRef |-> isAutoScrollingRef,
   framePending |-> framePending, animationFrameRef |-> animationFrameRef,
   scrollEvt |-> scrollEvt, visibleBarRange |-> visibleBarRange,
   lastTick |-> "none", userCooldown |-> userCooldown,
   lastControl |-> lastControl]

Stores(s) ==
  /\ tempoMap' = s.tempoMap
  /\ sheetTempo' = s.sheetTempo
  /\ sheetLoaded' = s.sheetLoaded
  /\ notes' = s.notes
  /\ mutedTracks' = s.mutedTracks
  /\ restartTimers' = s.restartTimers
  /\ mounted' = s.mounted
  /\ isPlaying' = s.isPlaying
  /\ currentTime' = s.currentTime
  /\ playCalls' = s.playCalls
  /\ playerIsPlaying' = s.playerIsPlaying
  /\ playerCurrentTime' = s.playerCurrentTime
  /\ scheduledNotes' = s.scheduledNotes
  /\ timeTimers' = s.timeTimers
  /\ transportState' = s.transportState
  /\ transportSeconds' = s.transportSeconds
  /\ scrollTop' = s.scrollTop
  /\ indicatorPos' = s.indicatorPos
  /\ userScrollingRef' = s.userScrollingRef
  /\ scrollTimeout' = s.scrollTimeout
  /\ isAutoScrollingRef' = s.isAutoScrollingRef
  /\ framePending' = s.framePending
  /\ animationFrameRef' = s.animationFrameRef
  /\ scrollEvt' = s.scrollEvt
  /\ visibleBarRange' = s.visibleBarRange
  /\ lastTick' = s.lastTick
  /\ userCooldown' = s.userCooldown
  /\ lastControl' = s.lastControl

\* A step that makes s the next state and is no pointer event.
Becomes(s) ==
  /\ Stores(s)
  /\ UNCHANGED <<convSeconds, convResult, dragVars, pureVars>>

\* The counters the model follows stay within its bounds.
InBounds(s) ==
  /\ Len(s.playCalls) + Len(s.restartTimers) <= MaxPending
  /\ s.timeTimers <= MaxTimers
  /\ s.framePending <= MaxFrames

\* ------------------------------------------------------------- AudioPlayer
\* A stop in two stages: a running transport is only paused.
PlayerStopInStages(s) ==
  [s EXCEPT !.playerIsPlaying = FALSE,
            !.transportState = IF @ = "started" THEN "paused" ELSE "stopped",
            !.transportSeconds = IF s.transportState = "started" THEN @ ELSE 0,
            !.scheduledNotes = <<>>,
            !.playerCurrentTime = 0]

\* stop()
PlayerStop(s) ==
  [s EXCEPT !.playerIsPlaying = FALSE,
            !.transportState = "stopped",
            !.transportSeconds = 0,
            !.scheduledNotes = <<>>,
            !.playerCurrentTime = 0]

\* loadSheet(sheet)
PlayerLoadSheet(s) == PlayerStop(s)

\* pause()
PlayerPause(s) ==
  IF s.transportState = "started"
    THEN [s EXCEPT !.transportState = "paused", !.playerIsPlaying = FALSE]
    ELSE s

\* A resume that starts over from the beginning.
PlayerResumeFromZero(s) ==
  IF s.transportState = "paused"
    THEN [s EXCEPT !.transportState = "started",
                   !.transportSeconds = 0,
                   !.playerIsPlaying = TRUE,
                   !.timeTimers = @ + 1]
    ELSE s

\* resume(), the transport paused: the stopped branch (a fresh play) is never
\* taken, as usePlayback calls resume() only on a paused transport.
PlayerResume(s) ==
  IF s.transportState = "paused"
    THEN [s EXCEPT !.transportState = "started",
                   !.playerIsPlaying = TRUE,
                   !.timeTimers = @ + 1]
    ELSE s

\* The notes play() schedules: those of unmuted tracks that are valid, the
\* first of each (pitch, startTime) key.  The walk of sheet.notes.forEach from
\* index i with the keys seen so far.
RECURSIVE PartWalk(_, _, _, _)
PartWalk(ns, muted, i, keys) ==
  IF i > Len(ns) THEN <<>>
  ELSE
    LET n == ns[i]
        key == <<n.pitch, n.startTime>>
        skip == \/ n.trackId \in muted
                \/ n.pitch < 21 \/ n.pitch > 108
                \/ n.startTime < 0 \/ n.duration <= 0
                \/ key \in keys
    IN IF skip THEN PartWalk(ns, muted, i + 1, keys)
       ELSE <<[pitch |-> n.pitch, startTime |-> n.startTime,
               trackId |-> n.trackId]>>
            \o PartWalk(ns, muted, i + 1, keys \cup {key})

PartEvents(ns, muted) == PartWalk(ns, muted, 1, {})

\* play(), up to its first await.
PlayerPlayBegin(s, call) ==
  LET s1 == IF s.playerIsPlaying THEN PlayerStop(s) ELSE s
  IN [s1 EXCEPT !.playCalls = Append(@, call)]

\* play(), from its awaits on, for the oldest waiting call (a call is held
\* as the events its sheet and muted set give, both fixed at the call): the awaited
\* promises (Tone.start, context.resume, Tone.loaded) are the same for every
\* call, so the calls continue in the order they were made.  The transport
\* started with a 0.1 s lookahead is taken as started.
PlayerPlayFinish(s) ==
  LET events == Head(s.playCalls)
      s1 == [s EXCEPT !.playCalls = Tail(@),
                      !.scheduledNotes = <<>>,
                      !.transportState = "stopped",
                      !.transportSeconds = 0]
  IN IF Len(events) = 0
       THEN [s1 EXCEPT !.playerIsPlaying = FALSE]
       ELSE [s1 EXCEPT !.scheduledNotes = <<events>>,
                       !.transportState = "started",
                       !.playerIsPlaying = TRUE,
                       !.playerCurrentTime = 0,
                       !.timeTimers = @ + 1]

\* updateTimeDisplay, one pending timeout firing.
PlayerTimeDisplay(s) ==
  LET s1 == [s EXCEPT !.timeTimers = @ - 1] IN
  IF ~s.playerIsPlaying THEN s1
  ELSE
    LET quarterNotes == s.transportSeconds * s.sheetTempo * PerBpm
        s2 == IF s.transportState = "started"
                THEN [s1 EXCEPT !.playerCurrentTime = quarterNotes,
                                !.currentTime =
                                   IF s.mounted THEN quarterNotes ELSE @]
                ELSE s1
    IN [s2 EXCEPT !.timeTimers = @ + 1]

\* --------------------------------------------------------------- SheetView
RECURSIVE MaxEnd(_, _)
MaxEnd(ns, i) ==
  IF i > Len(ns) THEN 0
  ELSE Max(ns[i].startTime + ns[i].duration, MaxEnd(ns, i + 1))

\* totalDuration, times QScale.
TotalDuration(ns) ==
  IF Len(ns) = 0 THEN 16 * QScale
  ELSE Max(16 * QScale, MaxEnd(ns, 1) + 4 * QScale)

CeilDiv(a, b) == (a + b - 1) \div b

numBars(ns) == CeilDiv(TotalDuration(ns), BarQuarters * QScale)

barHeight == BarQuarters * PixelsPerQuarter

\* The largest scrollTop the browser allows: the content is
\* totalDuration * pixelsPerQuarter high.
MaxScrollTop(ns) ==
  Max(0, (TotalDuration(ns) * PixelsPerQuarter) \div QScale - ContainerHeight)

ClampScroll(ns, top) == Max(0, Min(MaxScrollTop(ns), top))

\* The bar range of updateVisibleBars for a scroll offset.
VisibleRange(ns, top) ==
  [start |-> Max(0, top \div barHeight - BarPadding),
   end |-> Min(numBars(ns), CeilDiv(top + ContainerHeight, barHeight) + BarPadding)]

\* updateVisibleBars()
UpdateVisibleBars(s) ==
  [s EXCEPT !.visibleBarRange = VisibleRange(s.notes, s.scrollTop)]

\* An assignment to container.scrollTop: the browser clamps it and, if the
\* offset changed, queues a scroll event.
SetScrollTop(s, top, cause) ==
  LET t == ClampScroll(s.notes, top) IN
  IF t = s.scrollTop THEN s
  ELSE [s EXCEPT !.scrollTop = t, !.scrollEvt = @ \cup {cause}]

RequestFrame(s) ==
  [s EXCEPT !.framePending = @ + 1, !.animationFrameRef = "live"]

\* if (animationFrameRef.current) { cancelAnimationFrame(...); ... = null }
CancelFrame(s) ==
  IF s.animationFrameRef = "null" THEN s
  ELSE [s EXCEPT !.framePending = IF s.animationFrameRef = "live" THEN @ - 1 ELSE @,
                 !.animationFrameRef = "null"]

\* A cleanup that forgets the pending frame.
LoopCleanupKeepsFrame(s) ==
  [s EXCEPT !.scrollTimeout = -1]

\* The cleanup of the loop effect.
LoopCleanup(s) ==
  [CancelFrame(s) EXCEPT !.scrollTimeout = -1]

\* The body of the loop effect, for the committed isPlaying and sheet.
LoopEffect(s) ==
  IF ~s.isPlaying \/ ~s.sheetLoaded
    THEN CancelFrame([s EXCEPT !.indicatorPos = -1])
    ELSE RequestFrame([s EXCEPT !.indicatorPos = IF @ = -1 THEN 0 ELSE @])

\* "Reset scroll to top when playback starts"
ResetScrollEffect(s, was) ==
  IF s.isPlaying /\ ~was /\ s.sheetLoaded
    THEN SetScrollTop(s, 0, "reset")
    ELSE s

\* SheetView's effects for a commit in which isPlaying went from `was` to
\* s.isPlaying and the sheet object changed or not; hadSheet: the view was
\* mounted before.  Cleanups run before the effects, the effects in the order
\* of their declaration.
ViewCommit(s, was, hadSheet, sheetChanged) ==
  LET changed == was # s.isPlaying \/ sheetChanged
      s1 == IF changed /\ was /\ hadSheet THEN LoopCleanup(s) ELSE s
      s2 == IF was # s.isPlaying \/ ~hadSheet THEN ResetScrollEffect(s1, was) ELSE s1
      s3 == IF sheetChanged THEN UpdateVisibleBars(s2) ELSE s2
  IN IF changed THEN LoopEffect(s3) ELSE s3

\* The loop's cursor position in quarter notes (times QScale).
CursorQuarterNotes(s) == s.transportSeconds * s.sheetTempo * PerBpm

\* The scroll offset the loop aims at for a cursor at `position` px.
TargetScrollTop(position) ==
  LET targetFixedPosition == (ContainerHeight * 2) \div 10
  IN IF position < targetFixedPosition THEN 0
     ELSE position - targetFixedPosition

\* A range update that reads the offset the tick found.
LoopScrollStaleOffset(s, target) ==
  LET s1 == SetScrollTop([s EXCEPT !.isAutoScrollingRef = TRUE], target, "loop")
      r == VisibleRange(s.notes, s.scrollTop)
      prev == s.visibleBarRange
  IN [s1 EXCEPT !.lastTick = "scroll",
                !.visibleBarRange =
                   IF Abs(prev.start - r.start) > 1 \/ Abs(prev.end - r.end) > 1
                     THEN r ELSE prev]

\* The loop's scroll write and the bar range update after it.
LoopScroll(s, target) ==
  LET s1 == SetScrollTop([s EXCEPT !.isAutoScrollingRef = TRUE], target, "loop")
      r == VisibleRange(s.notes, target)
      prev == s.visibleBarRange
  IN [s1 EXCEPT !.lastTick = "scroll",
                !.visibleBarRange =
                   IF Abs(prev.start - r.start) > 1 \/ Abs(prev.end - r.end) > 1
                     THEN r ELSE prev]

\* update(): one animation-frame callback, the callback already taken off
\* the pending ones.  throttled: fewer than 66 ms since the last work.
FrameUpdate(s, throttled) ==
  IF ~s.isPlaying THEN s
  ELSE IF throttled \/ s.transportState # "started" THEN RequestFrame(s)
  ELSE
    LET position == (CursorQuarterNotes(s) * PixelsPerQuarter) \div QScale
        s1 == [s EXCEPT !.lastTick = "work",
                        !.indicatorPos = IF @ = -1 THEN @ ELSE position]
        target == TargetScrollTop(position)
        s2 == IF ~s1.userScrollingRef /\ Abs(s1.scrollTop - target) > 1
                THEN LoopScroll(s1, target)
                ELSE s1
    IN RequestFrame(s2)

\* handleScroll
HandleScroll(s) ==
  IF s.isAutoScrollingRef
    THEN [s EXCEPT !.isAutoScrollingRef = FALSE]
    ELSE [s EXCEPT !.userScrollingRef = TRUE, !.scrollTimeout = CooldownTicks]

\* ------------------------------------------------------------- usePlayback
\* A stop that keeps the time shown.
HookStopKeepsTime(s) ==
  LET s1 == [PlayerStop(s) EXCEPT !.lastControl = "stop"] IN
  IF s.mounted THEN [s1 EXCEPT !.isPlaying = FALSE] ELSE s1

\* stop()
HookStop(s) ==
  LET s1 == [PlayerStop(s) EXCEPT !.lastControl = "stop"] IN
  IF s.mounted THEN [s1 EXCEPT !.isPlaying = FALSE, !.currentTime = 0] ELSE s1

\* pause()
HookPause(s) ==
  [PlayerPause(s) EXCEPT !.isPlaying = FALSE, !.lastControl = "pause"]

\* play(), call: the events of the sheet and muted set its closure holds.
HookPlay(s, call) ==
  LET s1 == IF s.transportState = "paused"
              THEN PlayerResume(s)
              ELSE PlayerPlayBegin(s, call)
  IN [s1 EXCEPT !.isPlaying = IF s.mounted THEN TRUE ELSE @,
                !.lastControl = IF s.transportState = "paused"
                                  THEN "resume" ELSE "play"]

\* --------------------------------------------------------------------- App
\* The effects of the commit that follows a handler: prev is the state the
\* previous render saw, s the state now.  SheetView's effects run first,
\* then usePlayback's sheet effect (loadSheet), App's sheet effect (which
\* resets the track state) and App's muted-tracks effect (stop, then play
\* again after 100 ms).  A state change made by an effect is committed in
\* turn.
RECURSIVE Commit(_, _, _)
Commit(prev, s, sheetChanged) ==
  IF ~s.mounted THEN s
  ELSE
    LET v == IF s.sheetLoaded
               THEN ViewCommit(s, prev.isPlaying, prev.sheetLoaded, sheetChanged)
               ELSE s
        p == IF sheetChanged /\ s.sheetLoaded THEN PlayerLoadSheet(v) ELSE v
        a == IF sheetChanged THEN [p EXCEPT !.mutedTracks = {}] ELSE p
        mutedChanged == prev.mutedTracks # s.mutedTracks
        m == IF mutedChanged /\ s.isPlaying /\ s.sheetLoaded
               THEN [HookStop(a) EXCEPT !.restartTimers =
                       Append(@, PartEvents(s.notes, s.mutedTracks))]
               ELSE a
    IN IF m.isPlaying # s.isPlaying \/ m.mutedTracks # s.mutedTracks
         THEN Commit(s, m, FALSE)
         ELSE m

\* The notes of the imported file: one in each of its two tracks, so that
\* the track sidebar and its mute buttons are shown.
ImportedNotes ==
  <<[pitch |-> 60, startTime |-> 0, duration |-> QScale, trackId |-> 0],
    [pitch |-> 64, startTime |-> 0, duration |-> QScale, trackId |-> 1]>>

\* The file imported: one with a tempo change.
PlaybackFiles ==
  {<<[time |-> 0, tempo |-> 120], [time |-> 1, tempo |-> 60]>>}

\* handleSheetLoaded for a file with the notes ns and the tempo events tempos
SheetLoaded(s, ns, tempos) ==
  Commit(s, [s EXCEPT !.sheetLoaded = TRUE,
                      !.notes = ns,
                      !.tempoMap = BuildTempoMap(tempos),
                      !.sheetTempo = HeaderTempo(tempos)], TRUE)

\* handleSheetLoaded
HandleSheetLoaded(s, tempos) == SheetLoaded(s, ImportedNotes, tempos)

\* findIndex by pitch, startTime and duration; 0: not found.
RECURSIVE FindIndex(_, _, _)
FindIndex(ns, n, i) ==
  IF i > Len(ns) THEN 0
  ELSE IF /\ ns[i].pitch = n.pitch
          /\ ns[i].startTime = n.startTime
          /\ ns[i].duration = n.duration
         THEN i
  ELSE FindIndex(ns, n, i + 1)

\* App.handleNoteUpdate with useSheet.updateNote
HandleNoteUpdate(s, oldNote, newNote) ==
  LET noteIndex == FindIndex(s.notes, oldNote, 1) IN
  IF noteIndex = 0 THEN s
  ELSE Commit(s, [s EXCEPT !.notes = [@ EXCEPT ![noteIndex] = newNote]], TRUE)

\* App.handleNoteDelete with useSheet.removeNote
HandleNoteDelete(s, note) ==
  LET noteIndex == FindIndex(s.notes, note, 1) IN
  IF noteIndex = 0 THEN s
  ELSE Commit(s, [s EXCEPT !.notes =
                     SubSeq(@, 1, noteIndex - 1) \o SubSeq(@, noteIndex + 1, Len(@))],
              TRUE)

\* The notes a resize drag of n's end reports.
EditedNotes(n) ==
  {[n EXCEPT !.duration = d] : d \in {2 * QScale}}

\* The track whose mute button the user clicks.
ToggledTracks == {1}

\* The track whose notes the user resizes and deletes.
EditedTracks == {0}

\* The user's scroll positions.
ScrollStops == {0, 20, 60 * 10, 122 * 10}

\* ------------------------------------------------------------------ Init
\* The state after construction: no sheet, nothing playing.
InitState ==
  [tempoMap |-> <<>>, sheetTempo |-> DefaultTempo,
   sheetLoaded |-> FALSE, notes |-> <<>>, mutedTracks |-> {},
   restartTimers |-> <<>>, mounted |-> TRUE,
   isPlaying |-> FALSE, currentTime |-> 0,
   playCalls |-> <<>>, playerIsPlaying |-> FALSE,
   playerCurrentTime |-> 0, scheduledNotes |-> <<>>,
   timeTimers |-> 0, transportState |-> "stopped",
   transportSeconds |-> 0, scrollTop |-> 0,
   indicatorPos |-> -1, userScrollingRef |-> FALSE,
   scrollTimeout |-> -1, isAutoScrollingRef |-> FALSE,
   framePending |-> 0, animationFrameRef |-> "null",
   scrollEvt |-> {}, visibleBarRange |-> [start |-> 0, end |-> 10],
   lastTick |-> "none", userCooldown |-> 0,
   lastControl |-> "none"]

\* The present state is s.
Holds(s) ==
  /\ tempoMap = s.tempoMap
  /\ sheetTempo = s.sheetTempo
  /\ sheetLoaded = s.sheetLoaded
  /\ notes = s.notes
  /\ mutedTracks = s.mutedTracks
  /\ restartTimers = s.restartTimers
  /\ mounted = s.mounted
  /\ isPlaying = s.isPlaying
  /\ currentTime = s.currentTime
  /\ playCalls = s.playCalls
  /\ playerIsPlaying = s.playerIsPlaying
  /\ playerCurrentTime = s.playerCurrentTime
  /\ scheduledNotes = s.scheduledNotes
  /\ timeTimers = s.timeTimers
  /\ transportState = s.transportState
  /\ transportSeconds = s.transportSeconds
  /\ scrollTop = s.scrollTop
  /\ indicatorPos = s.indicatorPos
  /\ userScrollingRef = s.userScrollingRef
  /\ scrollTimeout = s.scrollTimeout
  /\ isAutoScrollingRef = s.isAutoScrollingRef
  /\ framePending = s.framePending
  /\ animationFrameRef = s.animationFrameRef
  /\ scrollEvt = s.scrollEvt
  /\ visibleBarRange = s.visibleBarRange
  /\ lastTick = s.lastTick
  /\ userCooldown = s.userCooldown
  /\ lastControl = s.lastControl

\* No pointer event yet: nothing selected, no NoteLine dragging.
NoDrag ==
  /\ selectedNote = <<>>
  /\ drags = <<>>
  /\ pointerHeld = FALSE
  /\ lastPointer = "none"
  /\ gestures = 0
  /\ tornDown = <<>>

\* The functions checked on their own have not been called.
\* The layout of a SheetView without a sheet: the states of App and SheetView
\* as useState makes them.
NoLayout ==
  [timeSignature |-> [numerator |-> 4, denominator |-> 4],
   totalDuration |-> 16,
   pixelsPerQuarter |-> PixelsPerQuarter,
   clientHeight |-> 0,
   scrollTop |-> 0,
   visibleBarRange |-> [start |-> 0, end |-> 10],
   rangeFor |-> [scrollTop |-> 0, clientHeight |-> 0,
                 pixelsPerQuarter |-> PixelsPerQuarter],
   lastOp |-> "none",
   zoomedFrom |-> PixelsPerQuarter,
   changed |-> FALSE]

\* App's track state as useState makes it.
NoTracks ==
  [visibleTracks |-> {}, soloTrack |-> -1, prevStateRef |-> <<>>,
   target |-> <<>>, lastOp |-> "none"]

NoCall ==
  /\ quantArgs = [dragType |-> "move", deltaTime |-> 0,
                  note |-> [pitch |-> 60, startTime |-> 0, duration |-> QScale,
                            trackId |-> 0]]
  /\ quantNote = <<>>
  /\ rawEvents = <<>>
  /\ imported = <<>>
  /\ importDone = FALSE
  /\ layout = NoLayout
  /\ trackView = NoTracks

Init ==
  /\ Holds(InitState)
  /\ convSeconds = 0
  /\ convResult = -1
  /\ NoDrag /\ NoCall

\* --------------------------------------------------------------- actions
\* A file is imported.
LoadSheet ==
  /\ mounted
  /\ \E tempos \in PlaybackFiles :
       LET t == HandleSheetLoaded(Cur, tempos) IN InBounds(t) /\ Becomes(t)

\* A resize drag of note i.
UpdateNote ==
  /\ mounted /\ sheetLoaded
  /\ \E i \in 1..Len(notes) : \E n \in EditedNotes(notes[i]) :
       /\ notes[i].trackId \in EditedTracks
       /\ LET t == HandleNoteUpdate(Cur, notes[i], n) IN InBounds(t) /\ Becomes(t)

\* Note i is deleted.
RemoveNote ==
  /\ mounted /\ sheetLoaded
  /\ \E i \in 1..Len(notes) :
       /\ notes[i].trackId \in EditedTracks
       /\ LET t == HandleNoteDelete(Cur, notes[i]) IN InBounds(t) /\ Becomes(t)

\* The Play button or the space bar while not playing.
Play ==
  /\ mounted /\ sheetLoaded /\ ~isPlaying
  /\ LET t == Commit(Cur, HookPlay(Cur, PartEvents(notes, mutedTracks)),
                     FALSE)
     IN InBounds(t) /\ Becomes(t)

\* The oldest waiting play() call gets past its awaits.
PlayFinish ==
  /\ playCalls # <<>>
  /\ LET t == PlayerPlayFinish(Cur) IN InBounds(t) /\ Becomes(t)

\* The Pause button or the space bar while playing.
Pause ==
  /\ mounted /\ sheetLoaded /\ isPlaying
  /\ LET t == Commit(Cur, HookPause(Cur), FALSE) IN InBounds(t) /\ Becomes(t)

\* The Stop button.
Stop ==
  /\ mounted /\ sheetLoaded
  /\ LET t == Commit(Cur, HookStop(Cur), FALSE) IN InBounds(t) /\ Becomes(t)

\* The mute button of a track.
ToggleMute ==
  /\ mounted /\ sheetLoaded
  /\ \E id \in ToggledTracks :
       LET newSet == IF id \in mutedTracks THEN mutedTracks \ {id}
                     ELSE mutedTracks \cup {id}
           t == Commit(Cur, [Cur EXCEPT !.mutedTracks = newSet], FALSE)
       IN InBounds(t) /\ Becomes(t)

\* The 100 ms timeout of the muted-tracks effect fires: play().
RestartFire ==
  /\ restartTimers # <<>>
  /\ LET s == [Cur EXCEPT !.restartTimers = Tail(@)]
         t == Commit(s, HookPlay(s, Head(restartTimers)), FALSE)
     IN InBounds(t) /\ Becomes(t)

\* A 200 ms time-display timeout fires.
TimeDisplayFire ==
  /\ timeTimers > 0
  /\ Becomes(PlayerTimeDisplay(Cur))

\* The transport's clock advances.
ClockAdvance ==
  /\ transportState = "started"
  /\ transportSeconds + ClockStep <= MaxElapsed
  /\ Becomes([Cur EXCEPT !.transportSeconds = @ + ClockStep])

\* An animation frame: one pending callback runs, the one animationFrameRef
\* names or another.
Frame ==
  /\ framePending > 0
  /\ \E named \in BOOLEAN : \E throttled \in BOOLEAN :
       /\ named => animationFrameRef = "live"
       /\ ~named => framePending > (IF animationFrameRef = "live" THEN 1 ELSE 0)
       /\ LET s == [Cur EXCEPT !.framePending = @ - 1,
                               !.animationFrameRef = IF named THEN "stale" ELSE @]
              t == FrameUpdate(s, throttled)
          IN InBounds(t) /\ Becomes(t)

\* The user scrolls the sheet.
ManualScroll ==
  /\ mounted /\ sheetLoaded
  /\ \E top \in ScrollStops :
       /\ top # scrollTop
       /\ top <= MaxScrollTop(notes)
       /\ Becomes([Cur EXCEPT !.scrollTop = top, !.scrollEvt = @ \cup {"user"}])

\* The browser dispatches the waiting scroll event to the listeners:
\* updateVisibleBars and, while the loop effect is in place, handleScroll.
ScrollEvent ==
  /\ scrollEvt # {}
  /\ mounted /\ sheetLoaded
  /\ LET s1 == UpdateVisibleBars([Cur EXCEPT !.scrollEvt = {}])
         s2 == IF isPlaying THEN HandleScroll(s1) ELSE s1
     IN Becomes([s2 EXCEPT !.userCooldown =
                    IF isPlaying /\ "user" \in scrollEvt THEN CooldownTicks ELSE @])

\* The cooldown timeout fires.
CooldownFire ==
  /\ scrollTimeout = 0
  /\ Becomes([Cur EXCEPT !.userScrollingRef = FALSE, !.scrollTimeout = -1])

\* Time passes: a step of the clock the cooldown is measured with.
TimeStep ==
  /\ scrollTimeout # 0
  /\ scrollTimeout > 0 \/ userCooldown > 0
  /\ Becomes([Cur EXCEPT !.scrollTimeout = IF @ > 0 THEN @ - 1 ELSE @,
                         !.userCooldown = IF @ > 0 THEN @ - 1 ELSE @])

\* The App is torn down: SheetView's cleanups and usePlayback's dispose().
Unmount ==
  /\ mounted
  /\ LET s1 == IF isPlaying /\ sheetLoaded THEN LoopCleanup(Cur) ELSE Cur
         s2 == PlayerStop(s1)
     IN Becomes([s2 EXCEPT !.mounted = FALSE, !.scrollEvt = {}])

\* The app without the user's own scrolling: the sheet store, the playback
\* controls, the player's timers and the loop.
Next ==
  \/ LoadSheet
  \/ UpdateNote
  \/ RemoveNote
  \/ Play
  \/ PlayFinish
  \/ Pause
  \/ Stop
  \/ ToggleMute
  \/ RestartFire
  \/ TimeDisplayFire
  \/ ClockAdvance
  \/ Frame
  \/ ScrollEvent
  \/ Unmount

Spec == Init /\ [][Next]_vars

\* ------------------------------------------- the user scrolls a loaded sheet
\* A file has been imported.
ScrollInit ==
  /\ \E tempos \in PlaybackFiles : Holds(HandleSheetLoaded(InitState, tempos))
  /\ convSeconds = 0
  /\ convResult = -1
  /\ NoDrag /\ NoCall

\* The playback controls, the loop, the user's scrolling and the cooldown.
ScrollNext ==
  \/ Play
  \/ PlayFinish
  \/ Pause
  \/ Stop
  \/ TimeDisplayFire
  \/ ClockAdvance
  \/ Frame
  \/ ManualScroll
  \/ ScrollEvent
  \/ CooldownFire
  \/ TimeStep

ScrollSpec == ScrollInit /\ [][ScrollNext]_vars

\* ------------------------------------------------- the conversion, driven
TempoEvents == [time : 0..MaxMapTime, tempo : Bpms]

HeaderTempos == UNION {[1..n -> TempoEvents] : n \in 0..MaxBreakpoints}

\* The file with the tempo events `tempos` has been imported and played, and
\* the transport has run for `seconds`.
PlayingAt(tempos, seconds) ==
  LET s1 == HandleSheetLoaded(InitState, tempos)
      s2 == Commit(s1, HookPlay(s1, PartEvents(s1.notes, s1.mutedTracks)), FALSE)
      s3 == PlayerPlayFinish(s2)
  IN [s3 EXCEPT !.transportSeconds = seconds]

TimeInit ==
  /\ \E tempos \in HeaderTempos : \E seconds \in 0..MaxSeconds :
       /\ Holds(PlayingAt(tempos, seconds))
       /\ convSeconds = seconds
  /\ convResult = -1
  /\ NoDrag /\ NoCall

Convert ==
  /\ convResult = -1
  /\ convResult' = secondsToQuarterNotes(convSeconds, tempoMap)
  /\ UNCHANGED <<tempoMap, sheetTempo, convSeconds, playVars, dragVars, pureVars>>

\* The conversion on its own, and the loop's tick on the same file and time;
\* Frame leaves convResult as it is.
TimeNext == Convert \/ Frame

TimeSpec == TimeInit /\ [][TimeNext]_vars

\* ------------------------------------------------ NoteLine and PianoKeyRow
\* Pointer coordinates are positions on the sheet along the time axis, in
\* the unit of the stored quarter notes: one pixel is PxUnits.  The view is
\* not scrolled while the pointer is used, so that differences of clientY
\* are differences of these positions.
PxUnits == QScale \div PixelsPerQuarter

\* The 0.25 of the drag grid.
QuarterStep == QScale \div 4

\* Math.round(x * 4) / 4: Math.round(v) is floor(v + 0.5).
MathRound4(x) == ((2 * x + QuarterStep) \div (2 * QuarterStep)) * QuarterStep

\* A move that drops the fraction of a step instead of rounding.
MovedNoteTruncated(originalNote, deltaTime) ==
  [originalNote EXCEPT !.startTime =
     Max(0, ((@ + deltaTime) \div QuarterStep) * QuarterStep)]

\* handleMouseMove, the 'move' branch: the note passed to onUpdate.
MovedNote(originalNote, deltaTime) ==
  [originalNote EXCEPT !.startTime = Max(0, MathRound4(@ + deltaTime))]

\* A resize whose minimum is 0.
ResizedNoteFromZero(originalNote, deltaTime) ==
  [originalNote EXCEPT !.duration = MathRound4(Max(0, @ + deltaTime))]

\* A resize that rounds without the minimum.
ResizedNoteUnclamped(originalNote, deltaTime) ==
  [originalNote EXCEPT !.duration = MathRound4(@ + deltaTime)]

\* handleMouseMove, the 'resize-end' branch: the note passed to onUpdate.
ResizedNote(originalNote, deltaTime) ==
  [originalNote EXCEPT !.duration = MathRound4(Max(QuarterStep, @ + deltaTime))]

\* handleMouseMove of the dragging NoteLine d for a pointer at y.
DragUpdate(d, y) ==
  IF d.dragType = "resize-end"
    THEN ResizedNote(d.note, y - d.y)
    ELSE MovedNote(d.note, y - d.y)

barStartTime(bar) == bar * BarQuarters * QScale
barEndTime(bar) == (bar + 1) * BarQuarters * QScale

\* PianoKeyRow's keyNotes for the row of `pitch` in bar `bar`, from index i
\* of the sheet's notes on.
RECURSIVE keyNotes(_, _, _, _)
\* A filter that takes a note that ends where the bar starts.
keyNotesFromBarStart(ns, pitch, bar, i) ==
  IF i > Len(ns) THEN <<>>
  ELSE IF /\ ns[i].pitch = pitch
          /\ ns[i].startTime < barEndTime(bar)
          /\ ns[i].startTime + ns[i].duration >= barStartTime(bar)
         THEN <<ns[i]>> \o keyNotes(ns, pitch, bar, i + 1)
  ELSE keyNotes(ns, pitch, bar, i + 1)

keyNotes(ns, pitch, bar, i) ==
  IF i > Len(ns) THEN <<>>
  ELSE IF /\ ns[i].pitch = pitch
          /\ ns[i].startTime < barEndTime(bar)
          /\ ns[i].startTime + ns[i].duration > barStartTime(bar)
         THEN <<ns[i]>> \o keyNotes(ns, pitch, bar, i + 1)
  ELSE keyNotes(ns, pitch, bar, i + 1)

\* The NoteLine with key `index` of that row is mounted.
ViewMounted(s, v) ==
  /\ s.mounted /\ s.sheetLoaded
  /\ v.bar >= s.visibleBarRange.start /\ v.bar < s.visibleBarRange.end
  /\ v.index <= Len(keyNotes(s.notes, v.pitch, v.bar, 1))

\* The top of a NoteLine's rectangle and its height.
visibleStart(note, bar) == Max(note.startTime, barStartTime(bar))
visibleEnd(note, bar) == Min(note.startTime + note.duration, barEndTime(bar))
height(note, bar) == Max(2 * PxUnits, visibleEnd(note, bar) - visibleStart(note, bar))

\* The NoteLines of a row under the pointer at y.
ViewsAt(s, pitch, bar, y) ==
  {i \in 1..Len(keyNotes(s.notes, pitch, bar, 1)) :
     LET note == keyNotes(s.notes, pitch, bar, 1)[i] IN
       /\ y >= visibleStart(note, bar)
       /\ y < visibleStart(note, bar) + height(note, bar)}

\* handleMouseDown of the NoteLine v for a pointer at y: its drag state.
\* storeAtDown, moved and last are history: the sheet's notes at this event,
\* whether a pointer-move has reached the drag, the note it last passed on.
MouseDown(s, v, y) ==
  LET note == keyNotes(s.notes, v.pitch, v.bar, 1)[v.index]
      clickY == y - visibleStart(note, v.bar)
      isNearEnd == clickY > height(note, v.bar) - 10 * PxUnits
  IN [view |-> v,
      dragType |-> IF isNearEnd THEN "resize-end" ELSE "move",
      y |-> y,
      note |-> note,
      storeAtDown |-> s.notes,
      moved |-> FALSE,
      last |-> note]

\* The drags after v's handleMouseDown: the NoteLine's listeners are added
\* when its isDragging becomes true and stay where they are if it was.
RECURSIVE SetDrag(_, _, _)
SetDrag(ds, d, k) ==
  IF k > Len(ds) THEN Append(ds, d)
  ELSE IF ds[k].view = d.view THEN [ds EXCEPT ![k] = d]
  ELSE SetDrag(ds, d, k + 1)

\* -------------------------------------------- SheetView.handleNoteUpdate
\* find() of the selected-note rule; 0: undefined.
RECURSIVE FindSelected(_, _, _)
FindSelected(ns, sel, i) ==
  IF i > Len(ns) THEN 0
  ELSE IF /\ ns[i].pitch = sel.pitch
          /\ 100 * Abs(ns[i].startTime - sel.startTime) < QScale
          /\ 100 * Abs(ns[i].duration - sel.duration) < QScale
         THEN i
  ELSE FindSelected(ns, sel, i + 1)

\* A fallback that takes the first note of the pitch wherever it is.
RECURSIVE FindNearbyAnyTime(_, _, _)
FindNearbyAnyTime(ns, updatedNote, i) ==
  IF i > Len(ns) THEN 0
  ELSE IF ns[i].pitch = updatedNote.pitch THEN i
  ELSE FindNearbyAnyTime(ns, updatedNote, i + 1)

\* find() of the fallback rule; 0: undefined.
RECURSIVE FindNearby(_, _, _)
FindNearby(ns, updatedNote, i) ==
  IF i > Len(ns) THEN 0
  ELSE IF /\ ns[i].pitch = updatedNote.pitch
          /\ \/ 10 * Abs(10 * ns[i].startTime - (10 * updatedNote.startTime - QScale))
                  < 100 * QScale
             \/ 2 * Abs(ns[i].startTime - updatedNote.startTime) < QScale
         THEN i
  ELSE FindNearby(ns, updatedNote, i + 1)

\* The index of handleNoteUpdate's originalNote in the sheet; 0: none.
ResolveOriginal(ns, sel, updatedNote) ==
  LET bySelection ==
        IF sel # <<>> /\ sel[1].pitch = updatedNote.pitch
          THEN FindSelected(ns, sel[1], 1)
          ELSE 0
  IN IF bySelection # 0 THEN bySelection ELSE FindNearby(ns, updatedNote, 1)

\* The slot App.handleNoteUpdate's findIndex gives for SheetView's
\* originalNote: the first note with its pitch, startTime and duration.
UpdateSlot(ns, sel, updatedNote) ==
  LET r == ResolveOriginal(ns, sel, updatedNote) IN
  IF r = 0 THEN 0 ELSE FindIndex(ns, ns[r], 1)

\* The mousemove listeners of the dragging NoteLines from the k-th on, for a
\* pointer at y.  Each resolves its note in the sheet of the last render
\* (ns0); the updateNote calls are applied in turn (acc).
RECURSIVE MoveNotes(_, _, _, _, _, _)
MoveNotes(ds, k, y, ns0, sel, acc) ==
  IF k > Len(ds) THEN acc
  ELSE
    LET updatedNote == DragUpdate(ds[k], y)
        slot == UpdateSlot(ns0, sel, updatedNote)
    IN MoveNotes(ds, k + 1, y, ns0, sel,
                 IF slot = 0 THEN acc ELSE [acc EXCEPT ![slot] = updatedNote])

\* Some listener's update found its note.
SomeResolved(ds, y, ns0, sel) ==
  \E k \in 1..Len(ds) : UpdateSlot(ns0, sel, DragUpdate(ds[k], y)) # 0

\* setSelectedNote(newNote) for each update of the selected note, in turn.
RECURSIVE MoveSelection(_, _, _, _, _, _)
MoveSelection(ds, k, y, ns0, sel0, acc) ==
  IF k > Len(ds) THEN acc
  ELSE
    LET updatedNote == DragUpdate(ds[k], y)
        slot == UpdateSlot(ns0, sel0, updatedNote)
    IN MoveSelection(ds, k + 1, y, ns0, sel0,
                     IF slot # 0 /\ sel0 = <<ns0[slot]>> THEN <<updatedNote>> ELSE acc)

\* The window's mousemove at y with the render that follows.
MouseMove(s, ds, sel, y) ==
  IF SomeResolved(ds, y, s.notes, sel)
    THEN Commit(s, [s EXCEPT !.notes = MoveNotes(ds, 1, y, s.notes, sel, s.notes)],
                TRUE)
    ELSE s

\* The drag states after a mousemove at y that left the state s: a
\* NoteLine that is no longer rendered loses its state and its listeners.
RECURSIVE DragsKept(_, _, _, _)
DragsKept(ds, k, y, s) ==
  IF k > Len(ds) THEN <<>>
  ELSE IF ViewMounted(s, ds[k].view)
         THEN <<[ds[k] EXCEPT !.moved = TRUE, !.last = DragUpdate(ds[k], y)]>>
                \o DragsKept(ds, k + 1, y, s)
  ELSE DragsKept(ds, k + 1, y, s)

RECURSIVE DragsLost(_, _, _, _)
DragsLost(ds, k, y, s) ==
  IF k > Len(ds) THEN <<>>
  ELSE IF ViewMounted(s, ds[k].view) THEN DragsLost(ds, k + 1, y, s)
  ELSE <<[ds[k] EXCEPT !.moved = TRUE, !.last = DragUpdate(ds[k], y)]>>
         \o DragsLost(ds, k + 1, y, s)

\* ------------------------------------------------- the user drags notes
\* Most presses of the button on a note that are followed.
MaxGestures == 2

\* The notes of the file edited: two notes of one key in the first bar and a
\* note of another key that runs from the first bar into the second.
DragNotes ==
  <<[pitch |-> 60, startTime |-> QScale \div 2, duration |-> QuarterStep, trackId |-> 0],
    [pitch |-> 60, startTime |-> QScale, duration |-> 2 * QuarterStep, trackId |-> 0],
    [pitch |-> 62, startTime |-> 3 * QScale + QScale \div 2, duration |-> QScale,
     trackId |-> 1]>>

\* The rows the pointer is used in.
PointerPitches == {60, 62}

\* The pointer's positions (px from the top of the sheet).
PointerPx == {52, 70, 195, 205}

DragInit ==
  /\ \E tempos \in PlaybackFiles : Holds(SheetLoaded(InitState, DragNotes, tempos))
  /\ convSeconds = 0
  /\ convResult = -1
  /\ NoDrag /\ NoCall

\* The mouse button goes down on a NoteLine: of those under the pointer the
\* one rendered last is on top.
PointerDown ==
  /\ mounted /\ sheetLoaded /\ ~pointerHeld
  /\ gestures < MaxGestures
  /\ \E pitch \in PointerPitches : \E px \in PointerPx :
       LET y == px * PxUnits
           bar == y \div (BarQuarters * QScale)
           hit == ViewsAt(Cur, pitch, bar, y)
           v == [bar |-> bar, pitch |-> pitch,
                 index |-> CHOOSE i \in hit : \A j \in hit : j <= i]
           ds == SetDrag(drags, MouseDown(Cur, v, y), 1)
       IN /\ bar >= visibleBarRange.start /\ bar < visibleBarRange.end
          /\ hit # {}
          /\ drags' = ds
          /\ gestures' = gestures + 1
          /\ pointerHeld' = TRUE
          /\ lastPointer' = "down"
          /\ tornDown' = <<>>
          /\ Stores(Cur)
          /\ UNCHANGED <<selectedNote, convSeconds, convResult, pureVars>>

\* The pointer moves: the window's mousemove listeners run.
PointerMove ==
  /\ mounted /\ sheetLoaded
  /\ \E px \in PointerPx :
       LET y == px * PxUnits
           t == MouseMove(Cur, drags, selectedNote, y)
       IN /\ InBounds(t)
          /\ Stores(t)
          /\ selectedNote' = MoveSelection(drags, 1, y, notes, selectedNote, selectedNote)
          /\ drags' = DragsKept(drags, 1, y, t)
          /\ tornDown' = DragsLost(drags, 1, y, t)
          /\ lastPointer' = "move"
          /\ UNCHANGED <<pointerHeld, gestures, convSeconds, convResult, pureVars>>

\* The button is released over the window: every dragging NoteLine's
\* handleMouseUp runs.
PointerUp ==
  /\ mounted /\ pointerHeld
  /\ drags' = <<>>
  /\ pointerHeld' = FALSE
  /\ lastPointer' = "up"
  /\ tornDown' = <<>>
  /\ Stores(Cur)
  /\ UNCHANGED <<selectedNote, gestures, convSeconds, convResult, pureVars>>

\* The button is released where the window gets no mouseup.
PointerUpLost ==
  /\ mounted /\ pointerHeld
  /\ pointerHeld' = FALSE
  /\ lastPointer' = "lost"
  /\ tornDown' = <<>>
  /\ Stores(Cur)
  /\ UNCHANGED <<selectedNote, drags, gestures, convSeconds, convResult, pureVars>>

\* The App is torn down while NoteLines may be dragging.
UnmountDragging ==
  /\ mounted
  /\ LET s1 == IF isPlaying /\ sheetLoaded THEN LoopCleanup(Cur) ELSE Cur
         s2 == PlayerStop(s1)
     IN Stores([s2 EXCEPT !.mounted = FALSE, !.scrollEvt = {}])
  /\ drags' = <<>>
  /\ tornDown' = drags
  /\ lastPointer' = "unmount"
  /\ UNCHANGED <<selectedNote, pointerHeld, gestures, convSeconds, convResult, pureVars>>

DragNext ==
  \/ PointerDown
  \/ PointerMove
  \/ PointerUp
  \/ PointerUpLost
  \/ UnmountDragging

DragSpec == DragInit /\ [][DragNext]_vars

\* ----------------------------------------- the drag arithmetic, driven
\* Starts, durations and pointer deltas are multiples of 1/24 quarter note:
\* these have the ties of the 0.25 grid (the odd multiples of 1/8) and the
\* values on either side of them.
FineUnit == QScale \div 24
\* The largest start (and the largest addition to the shortest duration), in
\* FineUnits; the pointer moves up to twice as far either way.
MaxFine == 24

QuantInputs ==
  {[dragType |-> "move", deltaTime |-> d * FineUnit,
    note |-> [pitch |-> 60, startTime |-> a * FineUnit, duration |-> QScale,
              trackId |-> 0]] :
      a \in 0..MaxFine, d \in (0 - 2 * MaxFine)..(2 * MaxFine)}
  \cup
  {[dragType |-> "resize-end", deltaTime |-> d * FineUnit,
    note |-> [pitch |-> 60, startTime |-> QScale,
              duration |-> QuarterStep + a * FineUnit, trackId |-> 0]] :
      a \in 0..MaxFine, d \in (0 - 2 * MaxFine)..(2 * MaxFine)}

\* A NoteLine is dragging the note of quantArgs; the pointer is deltaTime
\* from where it went down.
QuantInit ==
  /\ Holds(InitState)
  /\ convSeconds = 0
  /\ convResult = -1
  /\ NoDrag
  /\ quantArgs \in QuantInputs
  /\ quantNote = <<>>
  /\ rawEvents = <<>>
  /\ imported = <<>>
  /\ importDone = FALSE
  /\ layout = NoLayout
  /\ trackView = NoTracks

\* handleMouseMove computes the note it passes to onUpdate.
Quantize ==
  /\ quantNote = <<>>
  /\ quantNote' = <<DragUpdate([dragType |-> quantArgs.dragType, y |-> 0,
                                note |-> quantArgs.note], quantArgs.deltaTime)>>
  /\ UNCHANGED <<timeVars, playVars, dragVars, quantArgs, rawEvents, imported,
                 importDone, layout, trackView>>

QuantNext == Quantize

QuantSpec == QuantInit /\ [][QuantNext]_vars

\* ------------------------------------------- the import's note loop, driven
\* Start times of the file's notes are carried in 1/100000 quarter note, so
\* that the fourth decimal place is 10.
ImportScale == 10 * 10000
\* Most notes of the file.
MaxRawEvents == 2
\* The latest start of a note of the file (in 1/100000 quarter note).
MaxImportTime == 12

\* A key that drops the digits after the fourth instead of rounding.
toFixed4Truncated(startTime) == startTime \div 10

\* startTime.toFixed(4), as a number of 1/10000: the nearest, and the larger
\* of two equally near.
toFixed4(startTime) == (startTime + 5) \div 10

\* A key without the track.
noteKeyNoTrack(e) == <<e.pitch, toFixed4(e.time)>>

\* `${trackIndex}-${midiNote.midi}-${startTime.toFixed(4)}`
noteKey(e) == <<e.trackId, e.pitch, toFixed4(e.time)>>

\* A test that lets the key below the piano through.
outsidePianoFrom20(e) == e.pitch < 20 \/ e.pitch > 108

\* midiNote.midi < 21 || midiNote.midi > 108
outsidePiano(e) == e.pitch < 21 \/ e.pitch > 108

\* startTime < 0 || duration <= 0: the converted values are numbers here,
\* neither NaN nor infinite.
invalidNote(e) == e.time < 0 \/ e.duration <= 0

\* The forEach over the file's notes from the i-th on, with noteSet and the
\* notes pushed so far.
RECURSIVE NoteWalk(_, _, _, _)
NoteWalk(evts, i, noteSet, acc) ==
  IF i > Len(evts) THEN acc
  ELSE
    LET e == evts[i] IN
    IF outsidePiano(e) THEN NoteWalk(evts, i + 1, noteSet, acc)
    ELSE IF invalidNote(e) THEN NoteWalk(evts, i + 1, noteSet, acc)
    ELSE IF noteKey(e) \in noteSet THEN NoteWalk(evts, i + 1, noteSet, acc)
    ELSE NoteWalk(evts, i + 1, noteSet \cup {noteKey(e)},
                  Append(acc, [pitch |-> e.pitch, startTime |-> e.time,
                               duration |-> Max(ImportScale \div 4, e.duration),
                               trackId |-> e.trackId]))

\* Insert n into the sequence s sorted by startTime, after every note that
\* does not start later: Array.prototype.sort is stable.
RECURSIVE InsertByStart(_, _)
\* An insertion before the notes that start with n.
InsertBeforeEqual(s, n) ==
  IF Len(s) = 0 THEN <<n>>
  ELSE IF s[Len(s)].startTime < n.startTime THEN Append(s, n)
  ELSE Append(InsertByStart(SubSeq(s, 1, Len(s) - 1), n), s[Len(s)])

InsertByStart(s, n) ==
  IF Len(s) = 0 THEN <<n>>
  ELSE IF s[Len(s)].startTime <= n.startTime THEN Append(s, n)
  ELSE Append(InsertByStart(SubSeq(s, 1, Len(s) - 1), n), s[Len(s)])

RECURSIVE SortByStart(_)
SortByStart(s) ==
  IF Len(s) = 0 THEN <<>>
  ELSE InsertByStart(SortByStart(SubSeq(s, 1, Len(s) - 1)), s[Len(s)])

\* The notes midiToSheet stores for the file's notes.
midiNotes(evts) == SortByStart(NoteWalk(evts, 1, {}, <<>>))

\* The notes of a file: each has a track, a pitch, a converted start and a
\* converted duration of 0.01 quarter note.
RawNotes ==
  [trackId : {0, 1}, pitch : {60, 62}, time : 0..MaxImportTime,
   duration : {ImportScale \div 100}]

\* The tracks are read one after the other.
RawFiles ==
  {f \in UNION {[1..n -> RawNotes] : n \in 1..MaxRawEvents} :
     \A i \in 1..(Len(f) - 1) : f[i].trackId <= f[i + 1].trackId}

ImportInit ==
  /\ Holds(InitState)
  /\ convSeconds = 0
  /\ convResult = -1
  /\ NoDrag
  /\ quantArgs = [dragType |-> "move", deltaTime |-> 0,
                  note |-> [pitch |-> 60, startTime |-> 0, duration |-> QScale,
                            trackId |-> 0]]
  /\ quantNote = <<>>
  /\ rawEvents \in RawFiles
  /\ imported = <<>>
  /\ importDone = FALSE
  /\ layout = NoLayout
  /\ trackView = NoTracks

\* midiToSheet runs its note loop and sorts.
Import ==
  /\ ~importDone
  /\ imported' = midiNotes(rawEvents)
  /\ importDone' = TRUE
  /\ UNCHANGED <<layout, trackView>>
  /\ UNCHANGED <<timeVars, playVars, dragVars, quantArgs, quantNote, rawEvents>>

ImportNext == Import

ImportSpec == ImportInit /\ [][ImportNext]_vars

\* ---------------------------------------------------------------------------
\* midiToSheet's note loop on files with notes it rejects.

\* Most notes of such a file.
MaxFilterEvents == 3

\* The notes of such a file.  Those of the first two sets pass every test:
\* they lie on the lowest or the highest key of the piano, start at 0,
\* 0.00004 or 0.00005 quarter note and last 0.01 or 0.5 quarter note.  The
\* others are one key outside the piano, or start before 0, or last 0 or
\* less.
AnyNotes ==
  [trackId : {0, 1}, pitch : {21}, time : {0, 4, 5},
   duration : {ImportScale \div 100, ImportScale \div 2}]
  \cup [trackId : {0}, pitch : {108}, time : {0},
        duration : {ImportScale \div 2}]
  \cup [trackId : {0}, pitch : {20, 109}, time : {0},
        duration : {ImportScale \div 2}]
  \cup [trackId : {0}, pitch : {21}, time : {0 - 1},
        duration : {ImportScale \div 2}]
  \cup [trackId : {0}, pitch : {21}, time : {0}, duration : {0 - 1, 0}]

\* The tracks are read one after the other.
AnyFiles ==
  {f \in UNION {[1..n -> AnyNotes] : n \in 1..MaxFilterEvents} :
     \A i \in 1..(Len(f) - 1) : f[i].trackId <= f[i + 1].trackId}

FilterInit ==
  /\ Holds(InitState)
  /\ convSeconds = 0
  /\ convResult = -1
  /\ NoDrag
  /\ quantArgs = [dragType |-> "move", deltaTime |-> 0,
                  note |-> [pitch |-> 60, startTime |-> 0, duration |-> QScale,
                            trackId |-> 0]]
  /\ quantNote = <<>>
  /\ rawEvents \in AnyFiles
  /\ imported = <<>>
  /\ importDone = FALSE
  /\ layout = NoLayout
  /\ trackView = NoTracks

FilterSpec == FilterInit /\ [][ImportNext]_vars

\* ---------------------------------------------------------------------------
\* A file is imported, loaded and edited with the pointer.

\* The files: the notes of DragNotes, the first lasting 0.01 quarter note
\* in the file; the second lasts 0.01 or 0.5 quarter note from 1, or 0.4
\* from 1.1.
EditFiles ==
  {<<[trackId |-> 0, pitch |-> 60, time |-> ImportScale \div 2,
      duration |-> ImportScale \div 100],
     b,
     [trackId |-> 1, pitch |-> 62, time |-> 3 * ImportScale + ImportScale \div 2,
      duration |-> ImportScale]>> :
     b \in {[trackId |-> 0, pitch |-> 60, time |-> ImportScale,
             duration |-> ImportScale \div 100],
            [trackId |-> 0, pitch |-> 60, time |-> ImportScale,
             duration |-> ImportScale \div 2],
            [trackId |-> 0, pitch |-> 60, time |-> 11 * (ImportScale \div 10),
             duration |-> 4 * (ImportScale \div 10)]}}

\* sheet.notes as the sheet holds them: the times of midiToSheet in QScale
\* units.
SheetNotes(ns) ==
  [k \in 1..Len(ns) |->
     [pitch |-> ns[k].pitch,
      startTime |-> (ns[k].startTime * QScale) \div ImportScale,
      duration |-> (ns[k].duration * QScale) \div ImportScale,
      trackId |-> ns[k].trackId]]

EditInit ==
  /\ Holds(InitState)
  /\ convSeconds = 0
  /\ convResult = -1
  /\ NoDrag
  /\ quantArgs = [dragType |-> "move", deltaTime |-> 0,
                  note |-> [pitch |-> 60, startTime |-> 0, duration |-> QScale,
                            trackId |-> 0]]
  /\ quantNote = <<>>
  /\ rawEvents \in EditFiles
  /\ imported = <<>>
  /\ importDone = FALSE
  /\ layout = NoLayout
  /\ trackView = NoTracks

\* FileUpload hands the sheet of midiToSheet to handleSheetLoaded.
LoadImported ==
  /\ importDone /\ mounted /\ ~sheetLoaded
  /\ \E tempos \in PlaybackFiles :
       Becomes(SheetLoaded(Cur, SheetNotes(imported), tempos))

EditNext ==
  \/ Import
  \/ LoadImported
  \/ DragNext

EditSpec == EditInit /\ [][EditNext]_vars

\* ---------------------------------------------------------------------------
\* The layout of a loaded sheet that is not playing: zoom, scroll and resize.
\* Lengths are px, times quarter notes.

\* The farthest the user scrolls, in steps of ScrollStep px.
MaxScrollSteps == 14
ScrollStep == 10 * 10

\* The heights the container is given.
Heights == {45 * 10, 60 * 10}

\* -------------------------------------------------------- ZoomControls
\* A zoom-in without the upper limit.
handleZoomInUnlimited(pixelsPerQuarter) == pixelsPerQuarter + 10

\* handleZoomIn: the value passed to onZoomChange.
handleZoomIn(pixelsPerQuarter) == Min(pixelsPerQuarter + 10, 200)

\* handleZoomOut
handleZoomOut(pixelsPerQuarter) == Max(pixelsPerQuarter - 10, 20)

\* handleZoomReset
handleZoomReset(pixelsPerQuarter) == 50

\* ----------------------------------------------------------- SheetView
\* numBars for a totalDuration.
layoutBars(totalDuration) == CeilDiv(totalDuration, BarQuarters)

\* barHeight for a zoom.
layoutBarHeight(pixelsPerQuarter) == BarQuarters * pixelsPerQuarter

\* A range with one bar of padding.
visibleBarsPaddedByOne(top, clientHeight, pixelsPerQuarter, bars) ==
  [start |-> Max(0, top \div (BarQuarters * pixelsPerQuarter) - 1),
   end |-> Min(bars, CeilDiv(top + clientHeight, BarQuarters * pixelsPerQuarter) + 1)]

\* updateVisibleBars: the range it passes to setVisibleBarRange when the
\* container reports the scroll offset `top` and the height clientHeight.
visibleBars(top, clientHeight, pixelsPerQuarter, bars) ==
  LET viewportTop == top
      viewportBottom == top + clientHeight
      barHeightPx == BarQuarters * pixelsPerQuarter
      padding == BarPadding
  IN [start |-> Max(0, viewportTop \div barHeightPx - padding),
      end |-> Min(bars, CeilDiv(viewportBottom, barHeightPx) + padding)]

\* The top of a rendered bar and the times it shows.
barTop(barIndex, pixelsPerQuarter) == barIndex * layoutBarHeight(pixelsPerQuarter)

barWindow(barIndex) ==
  [barStartTime |-> barIndex * BarQuarters,
   barEndTime |-> (barIndex + 1) * BarQuarters]

\* The browser keeps scrollTop within the content, which is
\* totalDuration * pixelsPerQuarter high.
layoutMaxScroll(l) == Max(0, l.totalDuration * l.pixelsPerQuarter - l.clientHeight)

Rescrolled(l) == [l EXCEPT !.scrollTop = Min(@, layoutMaxScroll(l))]

\* updateVisibleBars runs, as the effect's first call or as the listener of
\* a scroll event.
RangeUpdated(l) ==
  [l EXCEPT !.visibleBarRange =
              visibleBars(l.scrollTop, l.clientHeight, l.pixelsPerQuarter,
                          layoutBars(l.totalDuration)),
            !.rangeFor = [scrollTop |-> l.scrollTop,
                          clientHeight |-> l.clientHeight,
                          pixelsPerQuarter |-> l.pixelsPerQuarter]]

\* onZoomChange(value): setPixelsPerQuarter; when the value is new SheetView
\* renders again, the browser lays the content out and the effect with the
\* dependencies [sheet, pixelsPerQuarter, numBars] runs.
ZoomedTo(l, value, op) ==
  LET l1 == [l EXCEPT !.lastOp = op, !.zoomedFrom = l.pixelsPerQuarter,
                      !.changed = (value # l.pixelsPerQuarter)]
  IN IF value = l.pixelsPerQuarter THEN l1
     ELSE RangeUpdated(Rescrolled([l1 EXCEPT !.pixelsPerQuarter = value]))

\* The user scrolls to `top`: the browser sets the offset and, if it
\* changed, sends the scroll event.
ScrolledTo(l, top) ==
  LET l1 == Rescrolled([l EXCEPT !.scrollTop = top])
      l2 == [l1 EXCEPT !.lastOp = "scroll", !.zoomedFrom = l.pixelsPerQuarter,
                       !.changed = (l1.scrollTop # l.scrollTop)]
  IN IF l1.scrollTop = l.scrollTop THEN l2 ELSE RangeUpdated(l2)

\* The container gets the height `h`: the ResizeObserver's updateHeight sets
\* containerHeight, SheetView renders again, and no dependency of the
\* effect of updateVisibleBars has changed.  The browser sends a scroll
\* event only if it had to move the offset.
ResizedTo(l, h) ==
  LET l1 == Rescrolled([l EXCEPT !.clientHeight = h])
      l2 == [l1 EXCEPT !.lastOp = "resize", !.zoomedFrom = l.pixelsPerQuarter,
                       !.changed = TRUE]
  IN IF l1.scrollTop = l.scrollTop THEN l2 ELSE RangeUpdated(l2)

\* The time signatures and the total durations of the sheets.
TimeSignatures ==
  {[numerator |-> 3, denominator |-> 4], [numerator |-> 4, denominator |-> 4],
   [numerator |-> 6, denominator |-> 8]}

TotalDurations == {16, 38, 40}

\* The notes of the sheet of a total duration (times QScale): a note within
\* the first bar, one from the first bar into the second, one that ends
\* where the third bar starts, one that fills the third bar, and one of 6
\* quarter notes that ends 4 before the total duration.
LayoutNotes(totalDuration) ==
  <<[pitch |-> 60, startTime |-> 0, duration |-> QScale, trackId |-> 0],
    [pitch |-> 60, startTime |-> 3 * QScale + QScale \div 2, duration |-> QScale,
     trackId |-> 0],
    [pitch |-> 60, startTime |-> 7 * QScale, duration |-> QScale, trackId |-> 0],
    [pitch |-> 62, startTime |-> 8 * QScale, duration |-> 4 * QScale,
     trackId |-> 0],
    [pitch |-> 62, startTime |-> (totalDuration - 10) * QScale,
     duration |-> 6 * QScale, trackId |-> 0]>>

\* The rows that have notes.
LayoutPitches == {60, 62}

\* The notes that get a NoteLine in the row of `pitch` of bar `bar`: bars
\* outside the visible range are not rendered, and a rendered row shows its
\* keyNotes.
Rendered(l, bar, pitch) ==
  IF bar >= l.visibleBarRange.start /\ bar < l.visibleBarRange.end
    THEN keyNotes(LayoutNotes(l.totalDuration), pitch, bar, 1)
    ELSE <<>>

\* A sheet has been loaded into a container of one of the heights.
LayoutInit ==
  /\ Holds(InitState)
  /\ convSeconds = 0
  /\ convResult = -1
  /\ NoDrag
  /\ quantArgs = [dragType |-> "move", deltaTime |-> 0,
                  note |-> [pitch |-> 60, startTime |-> 0, duration |-> QScale,
                            trackId |-> 0]]
  /\ quantNote = <<>>
  /\ rawEvents = <<>>
  /\ imported = <<>>
  /\ importDone = FALSE
  /\ trackView = NoTracks
  /\ \E ts \in TimeSignatures : \E d \in TotalDurations : \E h \in Heights :
       layout = RangeUpdated([NoLayout EXCEPT !.timeSignature = ts,
                                              !.totalDuration = d,
                                              !.clientHeight = h,
                                              !.lastOp = "load"])

\* ZoomControls' + button.
ZoomIn ==
  /\ layout' = ZoomedTo(layout, handleZoomIn(layout.pixelsPerQuarter), "zoomIn")
  /\ UNCHANGED <<timeVars, playVars, dragVars, quantArgs, quantNote, rawEvents,
                 imported, importDone, trackView>>

\* ZoomControls' - button.
ZoomOut ==
  /\ layout' = ZoomedTo(layout, handleZoomOut(layout.pixelsPerQuarter), "zoomOut")
  /\ UNCHANGED <<timeVars, playVars, dragVars, quantArgs, quantNote, rawEvents,
                 imported, importDone, trackView>>

\* ZoomControls' reset button.
ZoomReset ==
  /\ layout' = ZoomedTo(layout, handleZoomReset(layout.pixelsPerQuarter), "reset")
  /\ UNCHANGED <<timeVars, playVars, dragVars, quantArgs, quantNote, rawEvents,
                 imported, importDone, trackView>>

\* The user scrolls the sheet.
UserScroll ==
  /\ \E k \in 0..MaxScrollSteps : layout' = ScrolledTo(layout, k * ScrollStep)
  /\ UNCHANGED <<timeVars, playVars, dragVars, quantArgs, quantNote, rawEvents,
                 imported, importDone, trackView>>

\* The container changes its height.
Resize ==
  /\ \E h \in Heights : h # layout.clientHeight /\ layout' = ResizedTo(layout, h)
  /\ UNCHANGED <<timeVars, playVars, dragVars, quantArgs, quantNote, rawEvents,
                 imported, importDone, trackView>>

LayoutNext ==
  \/ ZoomIn
  \/ ZoomOut
  \/ ZoomReset
  \/ UserScroll
  \/ Resize

LayoutSpec == LayoutInit /\ [][LayoutNext]_vars

\* ------------------------------------------- the loop over a longer sheet
\* Longest run of the transport that is followed here (s).
MaxPlayed == 20

\* The seconds between two observations of the transport's clock.
ElapseSteps == {2, 5}

\* The notes of a longer file: the last one ends after 36 quarter notes, so
\* that the sheet has 10 bars and scrolls.
LongNotes ==
  <<[pitch |-> 60, startTime |-> 0, duration |-> QScale, trackId |-> 0],
    [pitch |-> 64, startTime |-> 32 * QScale, duration |-> 4 * QScale,
     trackId |-> 1]>>

\* The file has been imported and Play pressed, and play() has got past its
\* awaits: the transport has just started.
LoopInit ==
  /\ \E tempos \in PlaybackFiles :
       LET s1 == SheetLoaded(InitState, LongNotes, tempos)
           s2 == Commit(s1, HookPlay(s1, PartEvents(s1.notes, s1.mutedTracks)),
                        FALSE)
       IN Holds(PlayerPlayFinish(s2))
  /\ convSeconds = 0
  /\ convResult = -1
  /\ NoDrag /\ NoCall

\* The transport's clock advances; nothing stops it at the last note.
Elapse ==
  /\ transportState = "started"
  /\ \E d \in ElapseSteps :
       /\ transportSeconds + d <= MaxPlayed
       /\ Becomes([Cur EXCEPT !.transportSeconds = @ + d])

\* The loop, the user's scrolling and the cooldown while the sheet plays.
LoopNext ==
  \/ Elapse
  \/ Frame
  \/ ManualScroll
  \/ ScrollEvent
  \/ CooldownFire
  \/ TimeStep

LoopSpec == LoopInit /\ [][LoopNext]_vars


\* ------------------------------------------ the track sidebar and the edits
\* The ids of the file's tracks: midiToSheet numbers them from 0.
TrackIds == {0, 1, 2}

\* The notes of the file: tracks 0 and 1 hold a note of the same key, start
\* and duration (the import's duplicate key holds the track).
TrackNotes ==
  <<[pitch |-> 60, startTime |-> 0, duration |-> QScale, trackId |-> 0],
    [pitch |-> 60, startTime |-> 0, duration |-> QScale, trackId |-> 1],
    [pitch |-> 64, startTime |-> 2 * QScale, duration |-> QScale, trackId |-> 2]>>

\* App's effect on [sheet]: every track shown, no solo.  (Its
\* setMutedTracks(new Set()) is part of Commit.)
SheetEffect(tv) ==
  [tv EXCEPT !.visibleTracks = TrackIds, !.soloTrack = -1,
             !.prevStateRef = <<>>]

\* The set with id toggled.
Toggled(set, id) == IF id \in set THEN set \ {id} ELSE set \cup {id}

\* The visibleTracks prop App passes to SheetView: <<>> is undefined.
visibleTracksProp(visibleTracks) ==
  IF Cardinality(visibleTracks) > 0 THEN <<visibleTracks>> ELSE <<>>

\* The track condition of SheetView's filter for one note of the row's key.
\* !note.trackId holds for track 0.
filteredNotes(note, prop) ==
  IF prop # <<>> /\ Cardinality(prop[1]) > 0
    THEN note.trackId = 0 \/ note.trackId \in prop[1]
    ELSE TRUE

\* The note is given to its PianoKeyRow.
InRow(note) ==
  filteredNotes(note, visibleTracksProp(trackView.visibleTracks))

\* handleToggleSolo(trackId): what it does to the visible tracks, the solo
\* and the saved state, and the muted set it asks for.
SoloView(tv, muted, trackId) ==
  IF tv.soloTrack = trackId
    THEN [tv EXCEPT !.visibleTracks = IF tv.prevStateRef # <<>>
                                        THEN tv.prevStateRef[1].visible
                                        ELSE TrackIds,
                    !.soloTrack = -1,
                    !.prevStateRef = <<>>]
    ELSE [tv EXCEPT !.prevStateRef = <<[visible |-> tv.visibleTracks,
                                        muted |-> muted]>>,
                    !.soloTrack = trackId,
                    !.visibleTracks = {trackId}]

SoloMuted(tv, muted, trackId) ==
  IF tv.soloTrack = trackId
    THEN IF tv.prevStateRef # <<>> THEN tv.prevStateRef[1].muted ELSE {}
    ELSE TrackIds \ {trackId}

\* The file has been imported: every track is shown.
TrackInit ==
  /\ \E tempos \in PlaybackFiles : Holds(SheetLoaded(InitState, TrackNotes, tempos))
  /\ convSeconds = 0
  /\ convResult = -1
  /\ NoDrag
  /\ quantArgs = [dragType |-> "move", deltaTime |-> 0,
                  note |-> [pitch |-> 60, startTime |-> 0, duration |-> QScale,
                            trackId |-> 0]]
  /\ quantNote = <<>>
  /\ rawEvents = <<>>
  /\ imported = <<>>
  /\ importDone = FALSE
  /\ layout = NoLayout
  /\ trackView = [SheetEffect(NoTracks) EXCEPT !.lastOp = "load"]

\* The eye button of a track.
ToggleVisibility ==
  /\ mounted /\ sheetLoaded
  /\ trackView.soloTrack = -1
  /\ \E trackId \in TrackIds :
       trackView' = [trackView EXCEPT
                       !.visibleTracks = Toggled(@, trackId),
                       !.lastOp = "visibility"]
  /\ UNCHANGED <<timeVars, playVars, dragVars, quantArgs, quantNote, rawEvents,
                 imported, importDone, layout>>

\* The mute button of a track.
SidebarMute ==
  /\ mounted /\ sheetLoaded
  /\ trackView.soloTrack = -1
  /\ \E trackId \in TrackIds :
       Stores(Commit(Cur, [Cur EXCEPT !.mutedTracks = Toggled(@, trackId)],
                     FALSE))
  /\ trackView' = [trackView EXCEPT !.lastOp = "mute"]
  /\ UNCHANGED <<convSeconds, convResult, dragVars, quantArgs, quantNote,
                 rawEvents, imported, importDone, layout>>

\* The solo button of a track.
ToggleSolo ==
  /\ mounted /\ sheetLoaded
  /\ \E trackId \in TrackIds :
       /\ Stores(Commit(Cur, [Cur EXCEPT !.mutedTracks =
                                SoloMuted(trackView, mutedTracks, trackId)],
                        FALSE))
       /\ trackView' = [SoloView(trackView, mutedTracks, trackId)
                          EXCEPT !.lastOp = "solo"]
  /\ UNCHANGED <<convSeconds, convResult, dragVars, quantArgs, quantNote,
                 rawEvents, imported, importDone, layout>>

\* The context menu on the NoteLine of a note: onDelete(note), then the
\* sheet effect of the render that follows.
DeleteNote ==
  /\ mounted /\ sheetLoaded
  /\ \E i \in 1..Len(notes) :
       /\ InRow(notes[i])
       /\ Stores(HandleNoteDelete(Cur, notes[i]))
       /\ trackView' = [SheetEffect(trackView) EXCEPT !.target = <<notes[i]>>,
                                                      !.lastOp = "delete"]
  /\ UNCHANGED <<convSeconds, convResult, dragVars, quantArgs, quantNote,
                 rawEvents, imported, importDone, layout>>

\* A resize drag of a note has found its note: onNoteUpdate(note, resized),
\* then the sheet effect of the render that follows.
ResizeNote ==
  /\ mounted /\ sheetLoaded
  /\ \E i \in 1..Len(notes) : \E n \in EditedNotes(notes[i]) :
       /\ InRow(notes[i])
       /\ Stores(HandleNoteUpdate(Cur, notes[i], n))
       /\ trackView' = [SheetEffect(trackView) EXCEPT !.target = <<notes[i]>>,
                                                      !.lastOp = "update"]
  /\ UNCHANGED <<convSeconds, convResult, dragVars, quantArgs, quantNote,
                 rawEvents, imported, importDone, layout>>

TrackNext ==
  \/ ToggleVisibility
  \/ SidebarMute
  \/ ToggleSolo
  \/ DeleteNote
  \/ ResizeNote

TrackSpec == TrackInit /\ [][TrackNext]_vars


\* ------------------------------------------------------------------- C1
\* The length of the overlap of [lo, hi) with [0, seconds].
Overlap(lo, hi, seconds) == Max(0, Min(hi, seconds) - Max(lo, 0))

RECURSIVE SumTo(_, _)
SumTo(f, n) == IF n = 0 THEN 0 ELSE f[n] + SumTo(f, n - 1)

\* The end of breakpoint i's segment: the next breakpoint, and `seconds` for
\* the last one.
SegmentHi(map, i, seconds) ==
  IF i < Len(map) THEN map[i + 1].time ELSE seconds

\* The integral as the claim states it: breakpoint i covers [t_i, t_i+1).
ClaimedIntegral(seconds, map) ==
  IF Len(map) = 1 THEN seconds * map[1].tempo * PerBpm
  ELSE SumTo([i \in 1..Len(map) |->
                Overlap(map[i].time, SegmentHi(map, i, seconds), seconds)
                  * map[i].tempo * PerBpm], Len(map))

\* The integral with the first breakpoint's tempo in force from time 0.
IntegralFromZero(seconds, map) ==
  SumTo([i \in 1..Len(map) |->
           Overlap(IF i = 1 THEN 0 ELSE map[i].time,
                   SegmentHi(map, i, seconds), seconds)
             * map[i].tempo * PerBpm], Len(map))

\* C1 as stated: secondsToQuarterNotes(seconds) is the piecewise integral of
\* the tempo map with breakpoint i in force on [t_i, t_i+1), the last segment
\* clipped at seconds.
C1_AsStated ==
  convResult # -1 => convResult = ClaimedIntegral(convSeconds, tempoMap)

\* C1 amended: secondsToQuarterNotes(seconds) is the piecewise integral of the
\* tempo map in which the first breakpoint's tempo is in force from time 0
\* (whatever the first breakpoint's own time), breakpoint i > 1 is in force on
\* [t_i, t_i+1) and the last segment is clipped at seconds; the single-entry
\* map gives seconds * bpm / 60, and [(0s,120),(2s,60)] gives 5 at 3 s.
C1_PiecewiseIntegral ==
  /\ convResult # -1 => convResult = IntegralFromZero(convSeconds, tempoMap)
  /\ secondsToQuarterNotes(3, <<[time |-> 0, tempo |-> 120],
                                [time |-> 2, tempo |-> 60]>>) = 5 * QScale

\* A multi-entry map whose first breakpoint is later than 0 has been
\* converted at a time after its last breakpoint.
C1_Witness ==
  /\ convResult # -1
  /\ Len(tempoMap) > 1
  /\ tempoMap[1].time > 0
  /\ tempoMap[1].tempo # tempoMap[Len(tempoMap)].tempo
  /\ convSeconds > tempoMap[Len(tempoMap)].time

\* ------------------------------------------------------------------- C2
\* C2: on every loop tick that does work the cursor's quarter position is
\* secondsToQuarterNotes(elapsed, tempoMap) for the tempo map the import
\* placed the notes with, and the cursor's pixel offset is that position
\* times pixelsPerQuarter, whatever the tempo map.
C2_CursorFollowsTempoMap ==
  lastTick # "none" =>
    /\ CursorQuarterNotes(Cur) = secondsToQuarterNotes(transportSeconds, tempoMap)
    /\ indicatorPos * QScale =
         secondsToQuarterNotes(transportSeconds, tempoMap) * PixelsPerQuarter

\* ------------------------------------------------------------------- C3
\* C3: while Playing, after a scroll event the user produced, no loop tick
\* writes the scroll offset until the cooldown has elapsed: a tick that writes
\* finds the cooldown of the user's last scroll event run out.
C3_NoLoopWriteInCooldown ==
  lastTick = "scroll" => userCooldown = 0

\* ------------------------------------------------------------------- C4
\* What the browser and the timers guarantee: a queued scroll event is
\* dispatched, a requested frame runs, a due timeout fires, time passes and a
\* play() at its awaits continues.  Nothing obliges the user to act.
FairSpec ==
  /\ ScrollSpec
  /\ WF_vars(ScrollEvent)
  /\ WF_vars(Frame)
  /\ WF_vars(CooldownFire)
  /\ WF_vars(TimeStep)
  /\ WF_vars(TimeDisplayFire)
  /\ WF_vars(PlayFinish)
  /\ WF_vars(ClockAdvance)

\* A scroll event of the user has armed the cooldown: the flag is set and the
\* timeout runs with the cooldown of that event.
ArmedByUser ==
  userScrollingRef /\ userCooldown > 0 /\ scrollTimeout = userCooldown

\* C4: if a manual scroll arms the cooldown and the user then stops
\* scrolling, the user-scrolling flag is eventually cleared, whatever Play,
\* Pause and Stop do in between (the claim's first half; without it the loop
\* cannot resume its scroll writes).
C4_FlagEventuallyCleared ==
  <>[][~ManualScroll]_vars => [](ArmedByUser => <>(~userScrollingRef))

\* ------------------------------------------------------------------- C5
\* C5: at most one time-display callback chain is alive: while the player
\* plays, at most one updateTimeDisplay timeout is pending.
C5_OneTimerChain ==
  playerIsPlaying => timeTimers <= 1

\* ------------------------------------------------------------------- C6
\* C6: at most one frame callback of the loop is pending; none is pending
\* when not Playing or after teardown, and a tick writes the cursor or the
\* scroll offset only while Playing in a mounted view.
C6_OneFrameLoop ==
  /\ framePending <= 1
  /\ ~(isPlaying /\ mounted) => framePending = 0
  /\ lastTick # "none" => isPlaying /\ mounted

\* Paused after the loop has run: the loop's frame has been cancelled.
C6_Witness ==
  /\ lastControl = "pause"
  /\ ~isPlaying
  /\ indicatorPos = -1
  /\ transportState = "paused"
  /\ transportSeconds > 0
  /\ framePending = 0

\* ------------------------------------------------------------------- C7
\* C7: a drag update or a delete of a note leaves the transport's state and
\* elapsed time as they are.
C7_EditsLeaveTransport ==
  [][(UpdateNote \/ RemoveNote) =>
       UNCHANGED <<transportState, transportSeconds>>]_vars

\* ------------------------------------------------------------------- C8
\* C8: after Pause, and until the next Play, the transport is not started,
\* at whatever moment Pause was invoked.
C8_PausedNotStarted ==
  lastControl = "pause" => transportState # "started"

\* ------------------------------------------------------------------- C9
\* C9 as stated, its second half: a play() from Stopped that gets past its
\* awaits starts the transport at elapsed time 0.
C9_AsStated ==
  [][PlayFinish => transportState' = "started" /\ transportSeconds' = 0]_vars

\* C9 amended: Play on a paused transport starts it again with the elapsed
\* time and the scheduled part as they were and starts the loop; Play on a
\* stopped transport starts the loop at once and queues a play() that, past
\* its awaits, starts the transport at elapsed time 0 if its sheet has a note
\* to play (unmuted and valid), and leaves the transport stopped if it has none.
C9_ResumeOrStart ==
  [][/\ Play /\ transportState = "paused" =>
          /\ transportState' = "started"
          /\ transportSeconds' = transportSeconds
          /\ scheduledNotes' = scheduledNotes
          /\ playCalls' = playCalls
          /\ framePending' = 1
     /\ Play /\ transportState = "stopped" =>
          /\ playCalls' = Append(playCalls, PartEvents(notes, mutedTracks))
          /\ transportState' = "stopped"
          /\ transportSeconds' = 0
          /\ framePending' = 1
     /\ PlayFinish =>
          IF Len(Head(playCalls)) > 0
            THEN /\ transportState' = "started"
                 /\ transportSeconds' = 0
                 /\ scheduledNotes' = <<Head(playCalls)>>
            ELSE transportState' = "stopped"]_vars

\* Resumed part way through: the transport runs on from where Pause left it.
C9_Witness ==
  /\ lastControl = "resume"
  /\ isPlaying
  /\ transportState = "started"
  /\ transportSeconds > 0
  /\ scheduledNotes # <<>>

StopOnce(s) == Commit(s, HookStop(s), FALSE)

\* C11: Stop is idempotent: from every reachable state, playing or not, a
\* second Stop right after the first leaves the state the first one made
\* (transport stopped at 0, nothing scheduled, not playing); repeating the
\* player's stop (as dispose does), the loop's cleanup or the cancellation of
\* the frame, or running them with nothing left to release, changes nothing.
C11_StopIdempotent ==
  /\ (mounted /\ sheetLoaded) =>
       LET once == StopOnce(Cur) IN
         /\ StopOnce(once) = once
         /\ once.transportState = "stopped" /\ once.transportSeconds = 0
         /\ once.scheduledNotes = <<>> /\ ~once.isPlaying
  /\ PlayerStop(PlayerStop(Cur)) = PlayerStop(Cur)
  /\ LoopCleanup(LoopCleanup(Cur)) = LoopCleanup(Cur)
  /\ CancelFrame(CancelFrame(Cur)) = CancelFrame(Cur)

\* Stop has been pressed while the player's timer chain was alive and the
\* transport had run; the next Stop is the second in a row.
C11_Witness ==
  /\ lastControl = "stop" /\ ~isPlaying /\ timeTimers > 0
  /\ transportState = "stopped" /\ mounted /\ sheetLoaded

\* ------------------------------------------------------------------- C12
\* C12: if the view owning a drag is torn down after pointer-down and one or
\* more pointer-moves but before pointer-up, the note store equals its
\* content at pointer-down: no partial edit of the dragged note is committed.
C12_TeardownDiscards ==
  \A k \in 1..Len(tornDown) :
    tornDown[k].moved => notes = tornDown[k].storeAtDown

\* ------------------------------------------------------------------- C13
\* The store with the slot of `original` holding `final`.
Replaced(store, original, final) ==
  LET i == FindIndex(store, original, 1) IN
  IF i = 0 THEN store ELSE [store EXCEPT ![i] = final]

\* C13: on pointer-up every dragging view is Idle again with its snapshot
\* cleared, and the store is the store of pointer-down with the final
\* computed note in place of the original; while no view is dragging, a
\* pointer-move changes neither the drag state nor the store.
C13_PointerUpCommits ==
  [][/\ lastPointer' = "up" =>
          /\ drags' = <<>>
          /\ \A k \in 1..Len(drags) :
               drags[k].moved =>
                 notes' = Replaced(drags[k].storeAtDown, drags[k].note,
                                   drags[k].last)
     /\ (lastPointer' = "move" /\ drags = <<>>) =>
          UNCHANGED <<notes, drags, selectedNote>>]_vars

\* ------------------------------------------------------------------- C14
\* The note the only dragging view passed on in the step just taken.
UpdatePassed(ds, lost) == IF ds # <<>> THEN ds[1].last ELSE lost[1].last

\* C14: when the store holds a note whose pitch, startTime and duration
\* equal the drag's original, a pointer-move's update replaces that note's
\* slot, whatever other notes the tolerance or fallback rules would accept.
C14_ExactMatchFirst ==
  [][(/\ lastPointer' = "move"
      /\ Len(drags) = 1
      /\ FindIndex(notes, drags[1].note, 1) # 0)
       => notes' = Replaced(notes, drags[1].note, UpdatePassed(drags', tornDown'))]_vars

\* ------------------------------------------------------------------- C15
\* Rule (2) and rule (3) of the identity resolution, for one stored note.
SelectedRule(n, sel, candidate) ==
  /\ sel # <<>>
  /\ sel[1].pitch = candidate.pitch
  /\ n.pitch = sel[1].pitch
  /\ 100 * Abs(n.startTime - sel[1].startTime) < QScale
  /\ 100 * Abs(n.duration - sel[1].duration) < QScale

FallbackRule(n, candidate) ==
  /\ n.pitch = candidate.pitch
  /\ \/ Abs(10 * n.startTime - 10 * candidate.startTime + QScale) < 10 * QScale
     \/ 2 * Abs(n.startTime - candidate.startTime) < QScale

\* No stored note is the original exactly, nor accepted by rule (2) or (3).
NoRuleMatches(store, original, candidate, sel) ==
  /\ FindIndex(store, original, 1) = 0
  /\ \A i \in 1..Len(store) :
       ~SelectedRule(store[i], sel, candidate) /\ ~FallbackRule(store[i], candidate)

\* C15: when no stored note satisfies any identity-resolution rule for an
\* update, the update is a silent no-op: the note store (every slot, the
\* order and the length) and the selection are unchanged.
C15_NoMatchNoOp ==
  [][(/\ lastPointer' = "move"
      /\ Len(drags) = 1
      /\ NoRuleMatches(notes, drags[1].note,
                       UpdatePassed(drags', tornDown'), selectedNote))
       => UNCHANGED <<notes, selectedNote, sheetLoaded, transportState>>]_vars

\* A drag that has already changed the store has just passed on an update
\* that no rule resolves.
C15_Witness ==
  /\ lastPointer = "move"
  /\ Len(drags) = 1
  /\ drags[1].storeAtDown # notes
  /\ NoRuleMatches(notes, drags[1].note, drags[1].last, selectedNote)

\* ------------------------------------------------------------------- C18
\* C18: a drag started by pointer-down is ResizeEnd exactly when the pointer
\* was within 10 px of the note's trailing edge (startTime + duration) and
\* Move otherwise, for notes of every length and notes that run over several
\* bars; the snapshot is the note as stored at pointer-down and the start
\* coordinate is the pointer's.
C18_KindByTrailingEdge ==
  \A k \in 1..Len(drags) :
    LET d == drags[k] IN
      /\ (d.dragType = "resize-end")
           <=> (d.note.startTime + d.note.duration - d.y < 10 * PxUnits)
      /\ FindIndex(d.storeAtDown, d.note, 1) # 0
      /\ d.y >= d.note.startTime /\ d.y < d.note.startTime + d.note.duration

\* ------------------------------------------------------------------- C19
\* C19: at most one note view is dragging (and gets the pointer-moves) in
\* every reachable state, also after a pointer-up the window did not get.
C19_OneDragAtATime == Len(drags) <= 1

\* ------------------------------------------------------------------- C16
\* Rounding to the nearest multiple of 0.25, a tie going away from zero.
roundToQuarterStep(x) ==
  IF x >= 0
    THEN ((2 * x + QuarterStep) \div (2 * QuarterStep)) * QuarterStep
    ELSE 0 - (((2 * (0 - x) + QuarterStep) \div (2 * QuarterStep)) * QuarterStep)

\* C16: for a Move drag, every original startTime >= 0 and every pointer
\* delta, the new start is max(0, roundToQuarterStep(startTime + delta)) with
\* ties rounded half away from zero; startTime 1.0 and a delta of 0.37
\* quarter note give 1.25.
C16_MoveQuantized ==
  /\ (quantNote # <<>> /\ quantArgs.dragType = "move") =>
       quantNote[1].startTime =
         Max(0, roundToQuarterStep(quantArgs.note.startTime + quantArgs.deltaTime))
  /\ MovedNote([pitch |-> 60, startTime |-> QScale, duration |-> QScale,
                trackId |-> 0], (37 * QScale) \div 100).startTime
       = QScale + QuarterStep

\* A move has been computed whose unrounded start is a tie below zero, where
\* Math.round and rounding half away from zero differ.
C16_Witness ==
  /\ quantNote # <<>> /\ quantArgs.dragType = "move"
  /\ quantArgs.note.startTime + quantArgs.deltaTime < 0
  /\ 2 * ((0 - (quantArgs.note.startTime + quantArgs.deltaTime)) % QuarterStep)
       = QuarterStep

\* ------------------------------------------------------------------- C17
\* C17: for a ResizeEnd drag, every original duration >= 0.25 and every
\* pointer delta, the duration the code computes (the minimum 0.25 first,
\* then the rounding) is max(0.25, roundToQuarterStep(duration + delta)), and
\* the note's startTime and pitch are the original's.
C17_ResizeClampCommutes ==
  (quantNote # <<>> /\ quantArgs.dragType = "resize-end") =>
    /\ quantNote[1].duration =
         Max(QuarterStep, roundToQuarterStep(quantArgs.note.duration + quantArgs.deltaTime))
    /\ quantNote[1].startTime = quantArgs.note.startTime
    /\ quantNote[1].pitch = quantArgs.note.pitch

\* A resize has been computed whose unrounded duration is a tie below zero.
C17_Witness ==
  /\ quantNote # <<>> /\ quantArgs.dragType = "resize-end"
  /\ quantArgs.note.duration + quantArgs.deltaTime < 0
  /\ 2 * ((0 - (quantArgs.note.duration + quantArgs.deltaTime)) % QuarterStep)
       = QuarterStep

\* ------------------------------------------------------------------- C20
\* The stored notes of a track and pitch whose start is one of `starts`.
StoredAt(trackId, pitch, starts) ==
  {k \in 1..Len(imported) :
     /\ imported[k].trackId = trackId
     /\ imported[k].pitch = pitch
     /\ imported[k].startTime \in starts}

RoundedTo4(time) ==
  IF 10000 * (time % (ImportScale \div 10000)) >= ImportScale \div 2
    THEN time \div (ImportScale \div 10000) + 1
    ELSE time \div (ImportScale \div 10000)

\* The stored notes with the track, the pitch and the rounded start of the
\* file's i-th note.
StoredLike(i) ==
  {k \in 1..Len(imported) :
     /\ imported[k].trackId = rawEvents[i].trackId
     /\ imported[k].pitch = rawEvents[i].pitch
     /\ RoundedTo4(imported[k].startTime) = RoundedTo4(rawEvents[i].time)}

\* The first note of the file with the track, pitch and rounded start of
\* the i-th.
FirstLike(i) ==
  CHOOSE h \in 1..i :
    /\ rawEvents[h].trackId = rawEvents[i].trackId
    /\ rawEvents[h].pitch = rawEvents[i].pitch
    /\ RoundedTo4(rawEvents[h].time) = RoundedTo4(rawEvents[i].time)
    /\ \A g \in 1..(h - 1) :
         \/ rawEvents[g].trackId # rawEvents[i].trackId
         \/ rawEvents[g].pitch # rawEvents[i].pitch
         \/ RoundedTo4(rawEvents[g].time) # RoundedTo4(rawEvents[i].time)

ValidEvent(i) ==
  /\ rawEvents[i].pitch >= 21 /\ rawEvents[i].pitch <= 108
  /\ rawEvents[i].time >= 0
  /\ rawEvents[i].duration > 0

\* The i-th and the j-th note of the file have one track, one pitch and one
\* start after rounding to 4 decimal places.
SameKey(i, j) ==
  /\ rawEvents[i].trackId = rawEvents[j].trackId
  /\ rawEvents[i].pitch = rawEvents[j].pitch
  /\ RoundedTo4(rawEvents[i].time) = RoundedTo4(rawEvents[j].time)

\* The i-th note of the file is valid and no valid note before it has its
\* key.
FirstOfKey(i) ==
  /\ ValidEvent(i)
  /\ \A h \in 1..(i - 1) : ~(ValidEvent(h) /\ SameKey(h, i))

\* The note stored for the i-th note of the file, when it is stored.
StoredFor(i) ==
  [pitch |-> rawEvents[i].pitch, startTime |-> rawEvents[i].time,
   duration |-> IF 4 * rawEvents[i].duration < ImportScale
                  THEN ImportScale \div 4 ELSE rawEvents[i].duration,
   trackId |-> rawEvents[i].trackId]

\* The stored notes with the track, the pitch and the rounded start of the
\* i-th note of the file.
KeptLike(i) ==
  {k \in 1..Len(imported) :
     /\ imported[k].trackId = rawEvents[i].trackId
     /\ imported[k].pitch = rawEvents[i].pitch
     /\ RoundedTo4(imported[k].startTime) = RoundedTo4(rawEvents[i].time)}

\* C21: after the import no two stored notes have the same track, pitch and
\* start rounded to 4 decimal places; for every valid note of the file
\* exactly one note with its key is stored, and it is the note of the first
\* valid note of the file with that key, so that notes of one pitch and
\* start on different tracks are all stored.
C21_FirstOfKeyKept ==
  importDone =>
    /\ \A k, l \in 1..Len(imported) :
         (/\ imported[k].trackId = imported[l].trackId
          /\ imported[k].pitch = imported[l].pitch
          /\ RoundedTo4(imported[k].startTime)
               = RoundedTo4(imported[l].startTime))
           => k = l
    /\ \A i \in 1..Len(rawEvents) :
         ValidEvent(i) =>
           /\ Cardinality(KeptLike(i)) = 1
           /\ \E h \in 1..i :
                /\ FirstOfKey(h) /\ SameKey(h, i)
                /\ \A k \in KeptLike(i) : imported[k] = StoredFor(h)

\* A file has been imported in which a valid note is followed by one with
\* its key and another duration, and a third has their pitch and start on
\* the other track.
C21_Witness ==
  /\ importDone
  /\ \E i, j, m \in 1..Len(rawEvents) :
       /\ i < j
       /\ ValidEvent(i) /\ ValidEvent(j) /\ ValidEvent(m)
       /\ SameKey(i, j)
       /\ StoredFor(i) # StoredFor(j)
       /\ rawEvents[m].trackId # rawEvents[i].trackId
       /\ rawEvents[m].pitch = rawEvents[i].pitch
       /\ rawEvents[m].time = rawEvents[i].time

\* ------------------------------------------------------------------- C23
\* The notes of the file that are stored: the valid ones that no valid note
\* before them shares the key with.
KeptEvents == {i \in 1..Len(rawEvents) : FirstOfKey(i)}

\* C23: the import stores nothing for a note of the file whose pitch is
\* outside 21..108, whose start is negative or whose duration is 0 or less,
\* and nothing else keeps a note out but an earlier valid note with its key:
\* the stored notes are exactly the notes of the valid notes of the file
\* that are the first with their key among the valid ones, whatever rejected
\* notes stand before, between or after them.  No note on key 20 or 109 is
\* stored, and a first note on key 21 or 108 that starts at 0 and lasts more
\* than 0 is stored with the start 0.
C23_RejectedExactly ==
  importDone =>
    /\ Len(imported) = Cardinality(KeptEvents)
    /\ \A i \in KeptEvents : \E k \in 1..Len(imported) : imported[k] = StoredFor(i)
    /\ \A k \in 1..Len(imported) : \E i \in KeptEvents : imported[k] = StoredFor(i)
    /\ \A i \in 1..Len(rawEvents) :
         /\ rawEvents[i].pitch \in {20, 109} =>
              \A k \in 1..Len(imported) : imported[k].pitch # rawEvents[i].pitch
         /\ (rawEvents[i].pitch \in {21, 108} /\ rawEvents[i].time = 0
             /\ rawEvents[i].duration > 0 /\ i \in KeptEvents) =>
              \E k \in 1..Len(imported) :
                /\ imported[k].pitch = rawEvents[i].pitch
                /\ imported[k].trackId = rawEvents[i].trackId
                /\ imported[k].startTime = 0

\* A file has been imported in which a rejected note stands before a valid
\* one with its track, pitch and start, and a note on key 20 or 109 stands
\* beside one on key 21 or 108 that starts at 0.
C23_Witness ==
  /\ importDone
  /\ \E i, j, m \in 1..Len(rawEvents) :
       /\ i < j
       /\ ~ValidEvent(i) /\ ValidEvent(j)
       /\ SameKey(i, j)
       /\ rawEvents[j].time = 0
       /\ rawEvents[m].pitch \in {20, 109}
  /\ Len(imported) = 1

\* ------------------------------------------------------------------- C25
\* Where the note of the i-th note of the file is stored.
StoredIndex(i) == CHOOSE k \in 1..Len(imported) : imported[k] = StoredFor(i)

\* C25: the notes the import returns are in ascending order of startTime,
\* and two of them with one startTime stand in the order in which their
\* notes stand in the file (track after track, and within a track note
\* after note).
C25_StableByStart ==
  importDone =>
    /\ \A k, l \in 1..Len(imported) :
         k < l => imported[k].startTime <= imported[l].startTime
    /\ \A i, j \in KeptEvents :
         (i < j /\ rawEvents[i].time = rawEvents[j].time)
           => StoredIndex(i) < StoredIndex(j)

\* A file has been imported whose notes are not in order of start, with two
\* stored notes of one start on one track and a third that starts later and
\* stands before them.
C25_Witness ==
  /\ importDone
  /\ Len(imported) = 3
  /\ \E i, j, m \in KeptEvents :
       /\ m < i /\ i < j
       /\ rawEvents[i].time = rawEvents[j].time
       /\ rawEvents[i].trackId = rawEvents[j].trackId
       /\ rawEvents[m].time > rawEvents[i].time

\* ------------------------------------------------------------------- C22
\* C22: every note the import returns and every note of the sheet lasts at
\* least 0.25 quarter note, after the import and after every pointer-move
\* of a Move or ResizeEnd drag; a note of the file that lasts less (0.01) is
\* returned with the duration 0.25.
C22_DurationFloor ==
  /\ \A k \in 1..Len(imported) : 4 * imported[k].duration >= ImportScale
  /\ importDone =>
       \A i \in 1..Len(rawEvents) :
         (ValidEvent(i) /\ 4 * rawEvents[i].duration < ImportScale) =>
           \E k \in 1..Len(imported) :
             /\ imported[k].trackId = rawEvents[i].trackId
             /\ imported[k].pitch = rawEvents[i].pitch
             /\ imported[k].startTime = rawEvents[i].time
             /\ 4 * imported[k].duration = ImportScale
  /\ \A k \in 1..Len(notes) : notes[k].duration >= QuarterStep

\* A file with a note of 0.01 quarter note has been imported and loaded, and
\* a ResizeEnd drag has had a pointer-move that takes its note's end to
\* less than 0.125 quarter note from its start, where rounding alone gives
\* 0: no position of the pointer gives this drag 0.25 by rounding.
C22_Witness ==
  /\ importDone /\ sheetLoaded
  /\ \E i \in 1..Len(rawEvents) : 100 * rawEvents[i].duration = ImportScale
  /\ lastPointer = "move"
  /\ \E k \in 1..Len(drags) :
       /\ drags[k].dragType = "resize-end"
       /\ drags[k].moved
       /\ drags[k].last.duration = QuarterStep
       /\ FindIndex(notes, drags[k].last, 1) # 0
       /\ \A px \in PointerPx :
            LET x == drags[k].note.duration + px * PxUnits - drags[k].y IN
              8 * x < 4 * QuarterStep \/ 8 * x >= 12 * QuarterStep

\* ------------------------------------------------------------------- C24
\* C24: secondsToQuarterNotes does not decrease as the seconds grow: for the
\* tempo map of every file, of one entry or of several, the conversion of
\* every time from 0 to the converted time is at most the conversion of that
\* time, so that a note with this onset and a duration that ends at the
\* converted time has a converted duration of 0 or more.
C24_Monotonic ==
  convResult # -1 =>
    \A onset \in 0..convSeconds :
      /\ secondsToQuarterNotes(onset, tempoMap) <= convResult
      /\ \A later \in onset..convSeconds :
           secondsToQuarterNotes(later, tempoMap)
             - secondsToQuarterNotes(onset, tempoMap) >= 0

\* A time has been converted that lies after a breakpoint at which the
\* tempo falls, in a map of several entries whose first is not at 0.
C24_Witness ==
  /\ convResult # -1
  /\ Len(tempoMap) > 1
  /\ tempoMap[1].time > 0
  /\ \E i \in 2..Len(tempoMap) :
       /\ tempoMap[i].time < convSeconds
       /\ tempoMap[i].tempo < tempoMap[i - 1].tempo

\* ------------------------------------------------------------------- C26
\* floor(a / b) and ceil(a / b) for b > 0.
FloorOf(a, b) == a \div b

CeilingOf(a, b) == 0 - ((0 - a) \div b)

\* C26: the visible range is startBar = max(0, floor(scrollOffset /
\* barHeightPx) - 2) and endBar = min(totalBars, ceil((scrollOffset +
\* containerHeight) / barHeightPx) + 2) of the scroll offset, the container
\* height and the zoom it was computed for, with 0 <= startBar and endBar <=
\* totalBars; for a bar height of 200, a container of 600, an offset of 1000
\* and 10 bars or more it is 3 to 10.
C26_RangeFormula ==
  LET scrollOffset == layout.rangeFor.scrollTop
      containerHeight == layout.rangeFor.clientHeight
      barHeightPx == BarQuarters * layout.rangeFor.pixelsPerQuarter
      totalBars == layoutBars(layout.totalDuration)
      startBar == layout.visibleBarRange.start
      endBar == layout.visibleBarRange.end
  IN /\ scrollOffset >= 0
     /\ startBar = Max(0, FloorOf(scrollOffset, barHeightPx) - 2)
     /\ endBar = Min(totalBars,
                     CeilingOf(scrollOffset + containerHeight, barHeightPx) + 2)
     /\ 0 <= startBar /\ endBar <= totalBars
     /\ (/\ barHeightPx = 200 /\ containerHeight = 600 /\ scrollOffset = 1000
         /\ totalBars >= 10)
          => (startBar = 3 /\ endBar = 10)

\* The range has been computed for the offset 1000 in a container of 600 at
\* the zoom 50 (bars of 200 px) for a sheet of 10 bars.
C26_Witness ==
  /\ layout.lastOp = "scroll"
  /\ layout.rangeFor = [scrollTop |-> 1000, clientHeight |-> 600,
                        pixelsPerQuarter |-> 50]
  /\ layoutBars(layout.totalDuration) >= 10
  /\ layout.visibleBarRange = [start |-> 3, end |-> 10]

\* ------------------------------------------------------------------- C27
\* C27: the bar length of the layout is the numerator of the sheet's time
\* signature: the visible range is computed with bars of numerator x
\* pixelsPerQuarter px and ceil(totalDuration / numerator) bars, and the
\* rendered bar b lies at b x numerator x pixelsPerQuarter px and shows the
\* times from b x numerator to (b + 1) x numerator.
C27_BarLengthIsNumerator ==
  LET barQuarters == layout.timeSignature.numerator
      barHeightPx == barQuarters * layout.rangeFor.pixelsPerQuarter
      totalBars == CeilingOf(layout.totalDuration, barQuarters)
  IN /\ layout.visibleBarRange.start
          = Max(0, FloorOf(layout.rangeFor.scrollTop, barHeightPx) - 2)
     /\ layout.visibleBarRange.end
          = Min(totalBars,
                CeilingOf(layout.rangeFor.scrollTop + layout.rangeFor.clientHeight,
                          barHeightPx) + 2)
     /\ \A b \in layout.visibleBarRange.start..(layout.visibleBarRange.end - 1) :
          /\ barTop(b, layout.pixelsPerQuarter)
               = b * barQuarters * layout.pixelsPerQuarter
          /\ barWindow(b).barStartTime = b * barQuarters
          /\ barWindow(b).barEndTime = (b + 1) * barQuarters

\* ------------------------------------------------------------------- C28
\* C28: after a scroll event, a change of the zoom and a resize of the
\* container the visible range is the formula's range for the present
\* scroll offset, zoom and container height.
C28_RangeFollowsLayout ==
  (layout.lastOp \in {"scroll", "zoomIn", "zoomOut", "reset", "resize"}
   /\ layout.changed)
    => LET barHeightPx == BarQuarters * layout.pixelsPerQuarter
           totalBars == layoutBars(layout.totalDuration)
       IN /\ layout.visibleBarRange.start
               = Max(0, FloorOf(layout.scrollTop, barHeightPx) - 2)
          /\ layout.visibleBarRange.end
               = Min(totalBars,
                     CeilingOf(layout.scrollTop + layout.clientHeight,
                               barHeightPx) + 2)

\* ------------------------------------------------------------------- C30
\* C30: from the default 50 on, after every zoom-in, zoom-out and reset
\* pixelsPerQuarter is a multiple of 10 from 20 to 200; a zoom-in at 200 and
\* a zoom-out at 20 leave it as it is, and a reset makes it 50.
C30_ZoomInRange ==
  /\ layout.pixelsPerQuarter % 10 = 0
  /\ layout.pixelsPerQuarter >= 20 /\ layout.pixelsPerQuarter <= 200
  /\ (layout.lastOp = "zoomIn" /\ layout.zoomedFrom = 200)
       => layout.pixelsPerQuarter = 200
  /\ (layout.lastOp = "zoomOut" /\ layout.zoomedFrom = 20)
       => layout.pixelsPerQuarter = 20
  /\ layout.lastOp = "reset" => layout.pixelsPerQuarter = 50

\* The zoom has been taken from 50 to 200 and zoom-in was used once more.
C30_Witness ==
  /\ layout.lastOp = "zoomIn"
  /\ layout.zoomedFrom = 200
  /\ ~layout.changed

\* ------------------------------------------------------------------- C29
\* The note's interval [startTime, startTime + duration) and [lo, hi) have a
\* time in common.
Intersects(note, lo, hi) ==
  note.startTime < hi /\ note.startTime + note.duration > lo

\* C29: every NoteLine rendered shows a note whose interval intersects the
\* visible range's window [startBar x 4, endBar x 4) and the window of its
\* bar, from the later of the note's and the bar's start to the earlier of
\* their ends; and a note has exactly one NoteLine in each visible bar it
\* intersects.
C29_OnlyIntersecting ==
  LET ns == LayoutNotes(layout.totalDuration)
      startBar == layout.visibleBarRange.start
      endBar == layout.visibleBarRange.end
      barQuarters == BarQuarters * QScale
  IN \A bar \in 0..layoutBars(layout.totalDuration) : \A pitch \in LayoutPitches :
       LET row == Rendered(layout, bar, pitch) IN
         /\ \A i \in 1..Len(row) :
              /\ row[i].pitch = pitch
              /\ Intersects(row[i], startBar * barQuarters, endBar * barQuarters)
              /\ Intersects(row[i], bar * barQuarters, (bar + 1) * barQuarters)
              /\ visibleStart(row[i], bar) >= bar * barQuarters
              /\ visibleStart(row[i], bar) >= row[i].startTime
              /\ visibleEnd(row[i], bar) <= (bar + 1) * barQuarters
              /\ visibleEnd(row[i], bar) <= row[i].startTime + row[i].duration
              /\ visibleStart(row[i], bar) < visibleEnd(row[i], bar)
         /\ \A k \in 1..Len(ns) :
              (/\ ns[k].pitch = pitch
               /\ bar >= startBar /\ bar < endBar
               /\ Intersects(ns[k], bar * barQuarters, (bar + 1) * barQuarters))
                => Cardinality({i \in 1..Len(row) : row[i] = ns[k]}) = 1

\* The user has scrolled so that the range starts at the third bar: the
\* notes of the first two bars have no NoteLine, the note that ends where the
\* third bar starts has none, and a note has a NoteLine in each of two
\* visible bars.
C29_Witness ==
  /\ layout.lastOp = "scroll"
  /\ layout.visibleBarRange.start = 2
  /\ \A bar \in 0..layoutBars(layout.totalDuration) :
       Rendered(layout, bar, 60) = <<>>
  /\ \E bar \in 0..layoutBars(layout.totalDuration) :
       /\ Len(Rendered(layout, bar, 62)) = 1
       /\ Rendered(layout, bar, 62) = Rendered(layout, bar + 1, 62)

\* ------------------------------------------------------------------ C31
\* The cursor of the present state in pixels, as the loop computes it.
CursorPixels ==
  (CursorQuarterNotes(Cur) * PixelsPerQuarter) \div QScale

\* C31: after a loop tick outside the cooldown the scroll offset is within
\* 1 px of the tick's target: 0 while the cursor is above 20% of the
\* container's height, the cursor less that 20% otherwise.
C31_OffsetAtTarget ==
  (lastTick # "none" /\ ~userScrollingRef) =>
    LET target == IF 10 * CursorPixels < 2 * ContainerHeight THEN 0
                  ELSE CursorPixels - (2 * ContainerHeight) \div 10
    IN /\ target >= 0
       /\ target = TargetScrollTop(CursorPixels)
       /\ Abs(scrollTop - target) <= 1

\* ------------------------------------------------------------------ C32
\* C32: a scroll event the loop's own write caused neither arms nor refreshes
\* the cooldown, and the self-caused mark is cleared only by a scroll event
\* that a write of the loop caused, never by a scroll event of the user alone.
C32_MarkConsumedByOwnEvent ==
  [][(ScrollEvent /\ isPlaying) =>
       /\ "loop" \in scrollEvt =>
            UNCHANGED <<userScrollingRef, scrollTimeout>>
       /\ (isAutoScrollingRef /\ ~isAutoScrollingRef') =>
            "loop" \in scrollEvt]_vars

\* ------------------------------------------------------------------ C33
\* The bar range for the offset the loop aims at in the present state.
RangeAtTarget == VisibleRange(notes, TargetScrollTop(CursorPixels))

\* a and b differ by more than one bar at either end.
FarApart(a, b) ==
  Abs(a.start - b.start) > 1 \/ Abs(a.end - b.end) > 1

\* C33: a loop tick that writes the scroll offset recomputes the bar range
\* from the offset it has just written: the range after the tick is the one
\* of that offset when the two are more than a bar apart, and the range of
\* before otherwise; the offset the tick found plays no part.
C33_RangeFromWrittenOffset ==
  [][lastTick' = "scroll" =>
       visibleBarRange' = IF FarApart(visibleBarRange, RangeAtTarget')
                            THEN RangeAtTarget' ELSE visibleBarRange]_vars

\* A tick has scrolled from the top of the sheet to an offset whose range
\* no longer starts at the first bar, and has stored that range.
C33_Witness ==
  /\ lastTick = "scroll"
  /\ scrollTop = TargetScrollTop(CursorPixels)
  /\ scrollTop > 2 * barHeight
  /\ visibleBarRange = RangeAtTarget
  /\ visibleBarRange.start > 0
  /\ visibleBarRange # VisibleRange(notes, 0)

\* ------------------------------------------------------------------ C39
\* Bar `bar` has pixels inside the viewport.
InViewport(bar) ==
  /\ bar * barHeight < scrollTop + ContainerHeight
  /\ (bar + 1) * barHeight > scrollTop

\* Every bar of the sheet that intersects the viewport is rendered.
ViewportRendered ==
  \A bar \in 0..(numBars(notes) - 1) :
    InViewport(bar) =>
      visibleBarRange.start <= bar /\ bar < visibleBarRange.end

\* C39: after every scroll event and after every loop tick that did its
\* work (no scroll of the user still waiting for its event), the rendered
\* bar range holds every bar of the sheet that intersects the viewport.
C39_VisibleBarsRendered ==
  [][((ScrollEvent \/ lastTick' # "none") /\ "user" \notin scrollEvt')
       => ViewportRendered']_vars

\* ------------------------------------------------------------------ C34
\* The slot the note of the drag d had in the store at pointer-down.
DragSlot(d) ==
  CHOOSE i \in 1..Len(d.storeAtDown) : d.storeAtDown[i] = d.note

\* C34: a pointer-move of a single drag changes at most one slot of the
\* store, the slot of the note the drag started on; every other note, the
\* number of notes and their order stay as they were.
C34_OnlyDraggedSlot ==
  [][(lastPointer' = "move" /\ Len(drags) = 1) =>
       /\ Len(notes') = Len(notes)
       /\ \A i \in 1..Len(notes) :
            notes'[i] # notes[i] => i = DragSlot(drags[1])]_vars

\* ------------------------------------------------------------------ C35
\* C35: the hook's isPlaying and the transport agree: while isPlaying is
\* false the transport is not started and no play() waits at its awaits to
\* start it; while isPlaying is true the transport is started or a play()
\* is on its way to starting it.
C35_FlagMatchesTransport ==
  mounted =>
    /\ ~isPlaying => (transportState # "started" /\ playCalls = <<>>)
    /\ isPlaying => (transportState = "started" \/ playCalls # <<>>)

\* ------------------------------------------------------------------ C37
\* C37: while the transport is started, no scheduled event is a note of a
\* track that is muted now.
C37_MutedNotScheduled ==
  (mounted /\ transportState = "started") =>
    \A p \in 1..Len(scheduledNotes) : \A e \in 1..Len(scheduledNotes[p]) :
      scheduledNotes[p][e].trackId \notin mutedTracks

\* ------------------------------------------------------------------ C36
\* C36: updating or deleting a note leaves the track state as it was:
\* visibleTracks, mutedTracks and soloTrack keep their values.
C36_EditsKeepTrackState ==
  [][(DeleteNote \/ ResizeNote) =>
       /\ trackView'.visibleTracks = trackView.visibleTracks
       /\ trackView'.soloTrack = trackView.soloTrack
       /\ mutedTracks' = mutedTracks]_vars

\* ------------------------------------------------------------------ C38
\* C38: a note is given to its row, and so rendered, only if its track is
\* in visibleTracks, for every track id and every visibility set the
\* sidebar can produce, the empty one included.
C38_HiddenNotRendered ==
  \A i \in 1..Len(notes) :
    InRow(notes[i]) => notes[i].trackId \in trackView.visibleTracks

\* ------------------------------------------------------------------ C40
\* The sequence s without its k-th element.
WithoutSlot(s, k) == SubSeq(s, 1, k - 1) \o SubSeq(s, k + 1, Len(s))

\* C40: a delete removes exactly one note, one equal to the targeted note
\* in pitch, startTime, duration and trackId, and leaves the other notes
\* and their order as they were.
C40_DeleteRemovesTarget ==
  [][DeleteNote =>
       \E k \in 1..Len(notes) :
         /\ notes[k] = trackView'.target[1]
         /\ notes' = WithoutSlot(notes, k)]_vars
====
